---- MODULE Spec2Model ----
(***************************************************************************)
(* Verification model of alexandrainst/tts_text.                           *)
(*                                                                         *)
(* Part 1: interleave_datasets (src/tts_text/utils.py), a generator that   *)
(* first yields the shuffled non-sampling datasets and then samples,       *)
(* without replacement, from private copies of the sampling datasets.  It  *)
(* draws from the process-wide generator of Python's `random` module, as   *)
(* does build_time_dataset (src/tts_text/times.py).                        *)
(*                                                                         *)
(* List objects live in `lists` (address -> contents); an outer list is a  *)
(* sequence of addresses.  The process-wide random generator is the        *)
(* variable `rng`.  Python's Mersenne Twister is represented by a small    *)
(* full-period congruential generator: like the library's, its output is   *)
(* a function of the seed and of the number of draws made since seeding.   *)
(* Weights are integers (only their sums and comparisons matter).          *)
(*                                                                         *)
(* Part 2: main of src/scripts/build_tts_dataset.py.  Part 3:              *)
(* build_phoneme_covering_dataset (src/tts_text/phoneme_covering.py).      *)
(* Part 4: extract_sentences (src/tts_text/utils.py).  Part 5: get_soup    *)
(* (src/tts_text/utils.py).  Part 6: count_phoneme_occurences              *)
(* (src/tts_text/phoneme_covering.py).  Part 7: the manual filtering of    *)
(* reddit comments and build_reddit_dataset (src/tts_text/reddit.py).      *)
(* Part 8: the crawl of borger.dk (src/tts_text/borger_dk.py).  Each part  *)
(* has its own specification; the variables of the other parts stay idle   *)
(* in it.                                                                  *)
(***************************************************************************)
EXTENDS Integers, Sequences, FiniteSets, TLC

VARIABLES
    lists,                   \* heap of inner list objects: address -> contents
    non_sampling_datasets,   \* the caller's outer list (addresses)
    sampling_datasets,       \* the caller's outer list (addresses)
    sampling_probabilities,  \* the caller's weight list
    random_seed,             \* the seed of the configuration (cfg.random_seed)
    before,                  \* history: contents of the caller's lists at the start
    rng,                     \* state of the process-wide random generator
    gen,                     \* the generator objects made by interleave_datasets
    timesFile,               \* whether <data>/<raw>/times.txt exists
    builders,                \* build script: names in ALL_DATASET_BUILDERS, in order
    cfg,                     \* build script: the configuration
    datasets,                \* build script: names of the datasets built, in order
    main,                    \* build script: position and outcome of main
    dataset_path,            \* build script: <data>/<processed>/dataset.txt
    phonemes,                \* phoneme file: language -> list of {name, examples}
    wiki,                    \* sentences of the Wikipedia dataset, as loaded
    phoneme_covering,        \* cfg.phoneme_covering
    sorted_dataset,          \* the documents, counted and sorted
    cover,                   \* build_phoneme_covering_dataset: position and locals
    corpus,                  \* extract_sentences: the argument `corpus`
    min_sentence_length,     \* extract_sentences: the argument of that name
    extraction,              \* extract_sentences: position and result
    soup_args,               \* get_soup: the arguments
    soup,                    \* get_soup: position, locals and outcome
    reddit,                  \* the annotation file and build_reddit_dataset
    web,                     \* borger.dk: the pages and their links
    crawl,                   \* build_borger_dk_dataset: position and locals
    counting                 \* count_phoneme_occurences: argument and result

interleaveVars == <<lists, non_sampling_datasets, sampling_datasets,
                    sampling_probabilities, random_seed, before, rng, gen, timesFile>>
buildVars == <<builders, cfg, datasets, main, dataset_path>>
coverVars == <<phonemes, wiki, phoneme_covering, sorted_dataset, cover>>
sentVars == <<corpus, min_sentence_length, extraction>>
soupVars == <<soup_args, soup>>
redditVars == <<reddit>>
crawlVars == <<web, crawl>>
countVars == <<counting>>
laterVars == <<soupVars, redditVars, crawlVars, countVars>>
otherVars == <<buildVars, coverVars, sentVars, laterVars>>
vars == <<interleaveVars, otherVars>>

-----------------------------------------------------------------------------
(* Bounds of the model *)

MaxLen == 2      \* longest input collection
MaxSeed == 5     \* random_seed ranges over 0..MaxSeed
MaxOverlap == 1  \* most strings build_time_dataset produces twice

Gens == {1, 2}
Alphabet == <<"a", "a", "b", "c">>
Items == {Alphabet[i] : i \in DOMAIN Alphabet}
CollCounts == 0..2           \* collections in one outer list
WeightCounts == 0..3         \* entries of the weight list
WeightValues == {-1, 0, 2}
EntropyStates == {0, 9}      \* generator states left by the import-time seeding

\* build_time_dataset: len(HOURS), len(MINUTES), len(HOUR_PREFIXES)
NumHours == 24
NumMinutes == 60
NumPrefixes == 9

(* Parameters of the stand-in for the library's generator *)
RngModulus == 16
RngMul == 5
RngInc == 3

-----------------------------------------------------------------------------
(* Helpers *)

RECURSIVE SumSeq(_)
SumSeq(s) == IF s = <<>> THEN 0 ELSE Head(s) + SumSeq(Tail(s))

Count(s, x) == Cardinality({i \in DOMAIN s : s[i] = x})

SameBag(s, t) == \A x \in Items : Count(s, x) = Count(t, x)

SubBag(s, t) == \A x \in Items : Count(s, x) <= Count(t, x)

RECURSIVE Flatten(_)
Flatten(ss) == IF ss = <<>> THEN <<>> ELSE Head(ss) \o Flatten(Tail(ss))

SeqsOf(S, lens) == UNION {[1..k -> S] : k \in lens}

\* the input collection of length n whose first item is letter i of the alphabet
\* (cyclically): neighbouring collections share items, and the first holds one twice
Window(i, n) == [k \in 1..n |-> Alphabet[((i + k - 2) % Len(Alphabet)) + 1]]

-----------------------------------------------------------------------------
(* The random module *)

Step(r) == (RngMul * r + RngInc) % RngModulus

\* the generator state d draws later; the generator has period RngModulus
RECURSIVE Advance(_, _)
Advance(r, d) ==
    IF d >= RngModulus THEN Advance(r, d % RngModulus)
    ELSE IF d = 0 THEN r ELSE Advance(Step(r), d - 1)

\* mutant: the generator is not seeded again
SeedRngKeep(r, s) == r

\* random.seed(random_seed)
SeedRng(r, s) == s % RngModulus

\* random.randrange(n) / the library's _randbelow(n): one draw
RandBelow(r, n) == [val |-> (Step(r) * n) \div RngModulus, rng |-> Step(r)]

\* random.shuffle(x): for i in reversed(range(1, len(x))): j = randbelow(i + 1); swap
RECURSIVE ShuffleFrom(_, _, _)
ShuffleFrom(x, i, r) ==
    IF i < 2 THEN [list |-> x, rng |-> r]
    ELSE LET d == RandBelow(r, i)
             j == d.val + 1
         IN  ShuffleFrom([x EXCEPT ![i] = x[j], ![j] = x[i]], i - 1, d.rng)

Shuffle(x, r) == ShuffleFrom(x, Len(x), r)

\* mutant: the weights are taken for cumulative weights
AccumulateNone(w) == w

\* itertools.accumulate(weights)
Accumulate(w) == [i \in 1..Len(w) |-> SumSeq(SubSeq(w, 1, i))]

\* bisect.bisect_right(cum, u * total, lo, hi) with u = rv / RngModulus; the
\* indices are 0-based as in Python
RECURSIVE Bisect(_, _, _, _, _)
Bisect(cum, rv, total, lo, hi) ==
    IF lo < hi
    THEN LET mid == (lo + hi) \div 2
         IN  IF rv * total < cum[mid + 1] * RngModulus
             THEN Bisect(cum, rv, total, lo, mid)
             ELSE Bisect(cum, rv, total, mid + 1, hi)
    ELSE lo

\* mutant: surplus weights or datasets are ignored instead of being an error
ChoicesTruncating(n, w, r) ==
    LET m == IF Len(w) < n THEN Len(w) ELSE n
        cum == Accumulate(SubSeq(w, 1, m))
    IN  IF m = 0 THEN [ok |-> FALSE, idx |-> 0, rng |-> r]
        ELSE IF cum[m] <= 0 THEN [ok |-> FALSE, idx |-> 0, rng |-> r]
        ELSE [ok |-> TRUE, idx |-> Bisect(cum, Step(r), cum[m], 0, m - 1),
              rng |-> Step(r)]

\* random.choices(population, weights=w, k=1)[0] for a population of n elements:
\* the 0-based index chosen, or the ValueError the library (Python 3.9 and later,
\* which the list[str] annotations of the module require) raises when the number
\* of weights is not n or their total is not positive
Choices(n, w, r) ==
    LET cum == Accumulate(w)
    IN  IF Len(cum) # n THEN [ok |-> FALSE, idx |-> 0, rng |-> r]
        ELSE IF cum[n] <= 0 THEN [ok |-> FALSE, idx |-> 0, rng |-> r]
        ELSE [ok |-> TRUE, idx |-> Bisect(cum, Step(r), cum[n], 0, n - 1),
              rng |-> Step(r)]

-----------------------------------------------------------------------------
(* interleave_datasets *)

NoGen == [pc |-> "none", seed |-> 0, non |-> <<>>, weights |-> <<>>,
          joined |-> <<>>, idx |-> 0, local |-> <<>>, out |-> <<>>, src |-> <<>>,
          pulls |-> 0, draws |-> 0, removed |-> 0, copied |-> FALSE,
          disturbed |-> FALSE, empty |-> 0]
\* pc: where the generator is suspended; seed, non, weights, local: its arguments
\* (local is the name sampling_datasets inside the body); joined, idx: the shuffled
\* list and the position of `yield from` in it.  History: out (items yielded), src
\* (for each, 0 or the number of the sampling dataset it was drawn from), pulls
\* (calls of next), draws (random draws of the loop), removed (pops), copied
\* (the deep copy has been made), disturbed, empty (the number of the sampling
\* dataset that was chosen and found empty, 0 when none was).

\* mutant: only the first dataset is taken
ChainFirstOnly(refs, h) == IF refs = <<>> THEN <<>> ELSE h[refs[1]]

\* list(it.chain(*non_sampling_datasets))
Chain(refs, h) == Flatten([i \in 1..Len(refs) |-> h[refs[i]]])

\* mutant: no copy is made, the body keeps working on the caller's lists
NoCopy(refs, h) == [refs |-> refs, lists |-> h]

\* deepcopy(sampling_datasets): a new outer list of new inner lists (the inner
\* lists of the inputs are distinct objects)
DeepCopy(refs, h) ==
    [refs  |-> [i \in 1..Len(refs) |-> Len(h) + i],
     lists |-> h \o [i \in 1..Len(refs) |-> h[refs[i]]]]

\* mutant: the sample is read but not removed
PopNothing(dataset, sample_idx) == dataset

\* mutant: the dataset is emptied instead of losing one sample
PopAll(dataset, sample_idx) == <<>>

\* mutant: the sample is removed together with its successor
PopTwo(dataset, sample_idx) ==
    SubSeq(dataset, 1, sample_idx) \o SubSeq(dataset, sample_idx + 3, Len(dataset))

\* dataset.pop(sample_idx), sample_idx 0-based
Pop(dataset, sample_idx) ==
    SubSeq(dataset, 1, sample_idx) \o SubSeq(dataset, sample_idx + 2, Len(dataset))

\* mutant: when the dataset chosen is empty, the first dataset that still holds
\* items is sampled instead, and the loop ends only when none does
SampleStepOtherwise(st, r, h) ==
    IF Len(st.local) = 0
    THEN [gen |-> [st EXCEPT !.pc = "done"], rng |-> r, lists |-> h]
    ELSE LET c == Choices(Len(st.local), st.weights, r)
         IN  IF ~c.ok
             THEN [gen |-> [st EXCEPT !.pc = "raised"], rng |-> r, lists |-> h]
             ELSE LET full == {i \in DOMAIN st.local : Len(h[st.local[i]]) > 0}
                      i == IF Len(h[st.local[c.idx + 1]]) > 0 \/ full = {}
                           THEN c.idx + 1
                           ELSE CHOOSE x \in full : \A y \in full : x <= y
                      a == st.local[i]
                      dataset == h[a]
                  IN  IF Len(dataset) = 0
                      THEN [gen |-> [st EXCEPT !.pc = "done", !.draws = @ + 1,
                                                   !.empty = i],
                            rng |-> c.rng, lists |-> h]
                      ELSE LET d == RandBelow(c.rng, Len(dataset))
                               sample == dataset[d.val + 1]
                           IN  [gen |-> [st EXCEPT !.pc = "phase2",
                                                   !.out = Append(@, sample),
                                                   !.src = Append(@, i),
                                                   !.draws = @ + 2,
                                                   !.removed = @ + 1],
                                rng |-> d.rng,
                                lists |-> [h EXCEPT ![a] = Pop(dataset, d.val)]]

\* one turn of the while loop, up to the next yield, break, loop exit or error
SampleStep(st, r, h) ==
    IF Len(st.local) = 0
    THEN [gen |-> [st EXCEPT !.pc = "done"], rng |-> r, lists |-> h]
    ELSE LET c == Choices(Len(st.local), st.weights, r)
         IN  IF ~c.ok
             THEN [gen |-> [st EXCEPT !.pc = "raised"], rng |-> r, lists |-> h]
             ELSE LET a == st.local[c.idx + 1]
                      dataset == h[a]
                  IN  IF Len(dataset) = 0
                      THEN [gen |-> [st EXCEPT !.pc = "done", !.draws = @ + 1,
                                                   !.empty = c.idx + 1],
                            rng |-> c.rng, lists |-> h]
                      ELSE LET d == RandBelow(c.rng, Len(dataset))
                               sample == dataset[d.val + 1]
                           IN  [gen |-> [st EXCEPT !.pc = "phase2",
                                                   !.out = Append(@, sample),
                                                   !.src = Append(@, c.idx + 1),
                                                   !.draws = @ + 2,
                                                   !.removed = @ + 1],
                                rng |-> d.rng,
                                lists |-> [h EXCEPT ![a] = Pop(dataset, d.val)]]

\* the generator leaves `yield from`: copy the sampling datasets, enter the loop
EnterPhase2(st, r, h) ==
    LET cp == DeepCopy(st.local, h)
    IN  SampleStep([st EXCEPT !.local = cp.refs, !.copied = TRUE], r, cp.lists)

\* mutant: the last non-sampling item is skipped
YieldFromButLast(st, r, h) ==
    IF st.idx + 1 < Len(st.joined)
    THEN [gen |-> [st EXCEPT !.pc = "phase1", !.idx = @ + 1,
                             !.out = Append(@, st.joined[st.idx + 1]),
                             !.src = Append(@, 0)],
          rng |-> r, lists |-> h]
    ELSE EnterPhase2(st, r, h)

\* mutant: the whole shuffled list is handed over at once
YieldFromAll(st, r, h) ==
    IF st.idx < Len(st.joined)
    THEN [gen |-> [st EXCEPT !.pc = "phase1", !.idx = Len(st.joined),
                             !.out = @ \o st.joined,
                             !.src = @ \o [i \in 1..Len(st.joined) |-> 0]],
          rng |-> r, lists |-> h]
    ELSE EnterPhase2(st, r, h)

\* `yield from joined_non_sampling_datasets`: the next item, or on to phase 2
YieldFrom(st, r, h) ==
    IF st.idx < Len(st.joined)
    THEN [gen |-> [st EXCEPT !.pc = "phase1", !.idx = @ + 1,
                             !.out = Append(@, st.joined[st.idx + 1]),
                             !.src = Append(@, 0)],
          rng |-> r, lists |-> h]
    ELSE EnterPhase2(st, r, h)

\* the first next(): the body runs from its first line to the first yield
StartBody(st, r, h) ==
    LET r1 == SeedRng(r, st.seed)
        sh == Shuffle(Chain(st.non, h), r1)
    IN  YieldFrom([st EXCEPT !.joined = sh.list], sh.rng, h)

\* next(generator): resume from the point of suspension
Resume(st, r, h) ==
    CASE st.pc = "created" -> StartBody(st, r, h)
      [] st.pc = "phase1"  -> YieldFrom(st, r, h)
      [] st.pc = "phase2"  -> SampleStep(st, r, h)

Live(st) == st.pc \in {"phase1", "phase2"}
Ended(st) == st.pc \in {"done", "raised"}

\* history: a live generator is disturbed when someone else uses the generator
Disturb(g, other) ==
    [h \in Gens |-> IF h # other /\ Live(g[h])
                    THEN [g[h] EXCEPT !.disturbed = TRUE] ELSE g[h]]

-----------------------------------------------------------------------------
(* Actions *)

\* the caller's lists: nl and sl give the lengths of the non-sampling and of the
\* sampling collections, w the weights
Inputs(nl, sl, w) ==
    LET nn == Len(nl)
        ns == Len(sl)
    IN  /\ lists = [i \in 1..(nn + ns) |->
                       IF i <= nn THEN Window(i, nl[i])
                       ELSE Window(i - nn + 1, sl[i - nn])]
        /\ non_sampling_datasets = [i \in 1..nn |-> i]
        /\ sampling_datasets = [i \in 1..ns |-> nn + i]
        /\ sampling_probabilities = w
        /\ before = [non  |-> [i \in 1..nn |-> Window(i, nl[i])],
                     samp |-> [i \in 1..ns |-> Window(i + 1, sl[i])]]

\* the build script is not running
NoCfg == [sampling_probabilities |-> <<>>, include_entire_dataset |-> <<>>]
NoMain == [pc |-> "idle", error |-> "none", called |-> FALSE]
NoFile == [exists |-> FALSE, lines |-> <<>>, touched |-> FALSE]
BuildIdle ==
    /\ builders = <<>>
    /\ cfg = NoCfg
    /\ datasets = <<>>
    /\ main = NoMain
    /\ dataset_path = NoFile

\* build_phoneme_covering_dataset is not running
NoPhonemes == [da |-> <<>>, en |-> <<>>]
NoCovering == [min_docs_per_phoneme |-> 0, phoneme_sort_strategy |-> "all"]
NoCover == [pc |-> "idle", i |-> 0, all_phonemes |-> <<>>, dataset |-> <<>>,
            log |-> <<>>, outcome |-> <<>>]
CoverIdle ==
    /\ phonemes = NoPhonemes
    /\ wiki = <<>>
    /\ phoneme_covering = NoCovering
    /\ sorted_dataset = <<>>
    /\ cover = NoCover

\* extract_sentences is not running
NoExtraction == [pc |-> "idle", split |-> <<>>, sentences |-> <<>>]
SentIdle ==
    /\ corpus = <<>>
    /\ min_sentence_length = 0
    /\ extraction = NoExtraction

\* get_soup, the Reddit filter, the borger.dk crawl and the phoneme count are
\* not running
NoSoupArgs == [dynamic |-> FALSE, retries |-> {}, xpath_to_be_present |-> FALSE]
NoSoup == [pc |-> "idle"]
NoReddit == [pc |-> "idle"]
NoWeb == <<>>
NoCrawl == [pc |-> "idle"]
NoCounting == [pc |-> "idle"]
LaterIdle ==
    /\ soup_args = NoSoupArgs
    /\ soup = NoSoup
    /\ reddit = NoReddit
    /\ web = NoWeb
    /\ crawl = NoCrawl
    /\ counting = NoCounting

Start ==
    /\ random_seed \in 0..MaxSeed
    /\ rng \in EntropyStates
    /\ gen = [g \in Gens |-> NoGen]
    /\ timesFile = FALSE
    /\ BuildIdle
    /\ CoverIdle
    /\ SentIdle
    /\ LaterIdle

\* the weight lists tried with n sampling datasets: every list of n weights, and
\* lists of equal weights of every length
WeightLists(n) == SeqsOf(WeightValues, {n}) \cup SeqsOf({2}, WeightCounts)

Init ==
    /\ \E nl \in SeqsOf(0..MaxLen, CollCounts), sl \in SeqsOf(0..MaxLen, CollCounts) :
          \E w \in WeightLists(Len(sl)) : Inputs(nl, sl, w)
    /\ Start

\* two consumers of the process-wide generator: fewer input shapes
InitShared ==
    /\ \E nl \in SeqsOf({MaxLen}, 0..1), sl \in {<<MaxLen>>, <<1, 1>>} :
          Inputs(nl, sl, [i \in 1..Len(sl) |-> 2])
    /\ Start

\* interleave_datasets(...): the call only makes the generator object
Call(g) ==
    /\ gen[g].pc = "none"
    /\ \A h \in Gens : h < g => gen[h].pc # "none"
    /\ gen' = [gen EXCEPT ![g] = [NoGen EXCEPT !.pc = "created",
                                              !.seed = random_seed,
                                              !.non = non_sampling_datasets,
                                              !.local = sampling_datasets,
                                              !.weights = sampling_probabilities]]
    /\ UNCHANGED <<lists, non_sampling_datasets, sampling_datasets,
                   sampling_probabilities, random_seed, before, rng, timesFile>>
    /\ UNCHANGED otherVars

\* next(generator)
Pull(g) ==
    /\ gen[g].pc \in {"created", "phase1", "phase2"}
    /\ LET res == Resume([gen[g] EXCEPT !.pulls = @ + 1], rng, lists)
           usesRandom == gen[g].pc = "created" \/ res.gen.draws # gen[g].draws
       IN  /\ gen' = [(IF usesRandom THEN Disturb(gen, g) ELSE gen)
                          EXCEPT ![g] = res.gen]
           /\ rng' = res.rng
           /\ lists' = res.lists
    /\ UNCHANGED <<non_sampling_datasets, sampling_datasets,
                   sampling_probabilities, random_seed, before, timesFile>>
    /\ UNCHANGED otherVars

\* build_time_dataset(cfg): reads times.txt when it exists; otherwise seeds the
\* process-wide generator and draws one choice per hour, minute and prefix, then
\* shuffles the n strings left by list(set(dataset)) (n - 1 draws) and writes the
\* file.  The strings themselves are not modelled, so the number c of strings
\* produced twice is any number up to MaxOverlap.
BuildTime ==
    /\ IF timesFile
       THEN UNCHANGED <<rng, gen>>
       ELSE \E c \in 0..MaxOverlap :
                LET n == NumHours + NumMinutes + NumPrefixes - c
                IN  /\ rng' = Advance(SeedRng(rng, random_seed),
                                      NumHours + NumMinutes + NumPrefixes + n - 1)
                    /\ gen' = Disturb(gen, 0)
    /\ timesFile' = TRUE
    /\ UNCHANGED <<lists, non_sampling_datasets, sampling_datasets,
                   sampling_probabilities, random_seed, before>>
    /\ UNCHANGED otherVars

Next == Call(1) \/ Pull(1)

Spec == Init /\ [][Next]_vars

NextShared == (\E g \in Gens : Call(g)) \/ (\E g \in Gens : Pull(g)) \/ BuildTime

SpecShared == InitShared /\ [][NextShared]_vars

-----------------------------------------------------------------------------
(* Properties of interleave_datasets *)

NonItems == Flatten(before.non)
SampItems == Flatten(before.samp)
NumNon == Len(NonItems)
Prefix(s, n) == SubSeq(s, 1, IF n < Len(s) THEN n ELSE Len(s))
\* the items generator st has drawn from sampling dataset i, in order
DrawnFrom(st, i) ==
    LET F[n \in 0..Len(st.out)] ==
            IF n = 0 THEN <<>>
            ELSE IF st.src[n] = i THEN Append(F[n - 1], st.out[n]) ELSE F[n - 1]
    IN  F[Len(st.out)]
Phase2Count(st) == Cardinality({n \in DOMAIN st.src : st.src[n] # 0})

\* C1: phase 1 is exhaustive and precedes phase 2: the first k outputs (k the
\* number of non-sampling items) come from the non-sampling datasets and, once k
\* items are out, are a permutation of their concatenation; no draw of the loop
\* and no removal from a working copy happens before the k-th output.
C1_Phase1First ==
    \A g \in Gens :
        LET st == gen[g]
        IN  /\ \A n \in DOMAIN st.out : (n <= NumNon) <=> (st.src[n] = 0)
            /\ SubBag(Prefix(st.out, NumNon), NonItems)
            /\ Len(st.out) >= NumNon => SameBag(Prefix(st.out, NumNon), NonItems)
            /\ (st.draws > 0 \/ st.removed > 0 \/ st.copied)
                   => Len(st.out) >= NumNon

C1_Witness ==
    /\ Len(before.non) = 2 /\ NumNon >= 3
    /\ Len(gen[1].out) > NumNon
    /\ gen[1].removed > 0

\* C2: at every point the items yielded so far are, as a multiset, among the input
\* items; the draws from one sampling dataset never outnumber its original items,
\* and what was drawn from it together with what its working copy still holds is
\* the original dataset (nothing is yielded twice).
C2_NoItemTwice ==
    \A g \in Gens :
        LET st == gen[g]
        IN  /\ SubBag(st.out, NonItems \o SampItems)
            /\ \A i \in DOMAIN before.samp :
                   /\ Len(DrawnFrom(st, i)) <= Len(before.samp[i])
                   /\ SubBag(DrawnFrom(st, i), before.samp[i])
                   /\ st.removed > 0 =>
                          SameBag(DrawnFrom(st, i) \o lists[st.local[i]], before.samp[i])

C2_Witness ==
    \E i \in DOMAIN before.samp :
        /\ Len(before.samp[i]) = MaxLen
        /\ Len(DrawnFrom(gen[1], i)) = MaxLen
        /\ NumNon > 0

\* C3: with no sampling datasets the loop is never entered: the generator ends
\* normally and its whole output is a permutation of the concatenated non-sampling
\* datasets.
C3_OnlyNonSampling ==
    \A g \in Gens :
        LET st == gen[g]
        IN  (sampling_datasets = <<>> /\ st.pc \notin {"none", "created"}) =>
                /\ st.pc \in {"phase1", "done"}
                /\ st.draws = 0 /\ st.removed = 0
                /\ Len(st.out) <= NumNon
                /\ st.pc = "done" => SameBag(st.out, NonItems) /\ Len(st.out) = NumNon

C3_Witness ==
    /\ sampling_datasets = <<>>
    /\ Len(before.non) = 2 /\ NumNon >= 3
    /\ sampling_probabilities # <<>>
    /\ gen[1].pc = "done"

\* C4: with no non-sampling dataset and one sampling dataset of positive weight, the
\* generator ends normally after yielding exactly the items of that dataset.
C4_SingleSamplingExhausted ==
    \A g \in Gens :
        LET st == gen[g]
        IN  ( /\ non_sampling_datasets = <<>>
              /\ Len(sampling_datasets) = 1
              /\ Len(sampling_probabilities) = 1
              /\ sampling_probabilities[1] > 0
              /\ st.pc \notin {"none", "created"} ) =>
                /\ st.pc \in {"phase2", "done"}
                /\ st.pc = "phase2" => Len(st.out) <= Len(before.samp[1])
                /\ st.pc = "done" => /\ Len(st.out) = Len(before.samp[1])
                                     /\ SameBag(st.out, before.samp[1])

C4_Witness ==
    /\ non_sampling_datasets = <<>>
    /\ Len(sampling_datasets) = 1
    /\ sampling_probabilities = <<2>>
    /\ Len(before.samp[1]) = MaxLen
    /\ gen[1].pc = "done"

\* C5: whatever prefix has been consumed, the caller's lists hold what they held
\* before the call, in the same order.
C5_CallerListsUntouched ==
    /\ non_sampling_datasets = [i \in 1..Len(before.non) |-> i]
    /\ sampling_datasets = [i \in 1..Len(before.samp) |-> Len(before.non) + i]
    /\ \A i \in DOMAIN before.non : lists[non_sampling_datasets[i]] = before.non[i]
    /\ \A i \in DOMAIN before.samp : lists[sampling_datasets[i]] = before.samp[i]

C5_Witness ==
    /\ gen[1].pc = "phase2"
    /\ gen[1].removed >= 2
    /\ NumNon >= 2

\* C6: two complete consumptions with the same seed and the same inputs, neither
\* of them interleaved with another user of the random generator, yield the same
\* sequence and end the same way.
C6_SameSeedSameOutput ==
    \A g, h \in Gens :
        ( /\ Ended(gen[g]) /\ Ended(gen[h])
          /\ gen[g].seed = gen[h].seed
          /\ ~gen[g].disturbed /\ ~gen[h].disturbed ) =>
            /\ gen[g].out = gen[h].out
            /\ gen[g].pc = gen[h].pc

C6_Witness ==
    /\ gen[1].pc = "done" /\ gen[2].pc = "done"
    /\ ~gen[1].disturbed /\ ~gen[2].disturbed
    /\ NumNon >= 2
    /\ Phase2Count(gen[2]) >= 2

\* C7: a generator yields the sequence it yields when consumed alone, also when
\* pulls of another live generator, or the draws of build_time_dataset, fall
\* between its own pulls.
C7_OwnRandomState ==
    \A g, h \in Gens :
        ( /\ Ended(gen[g]) /\ Ended(gen[h])
          /\ gen[g].seed = gen[h].seed
          /\ ~gen[g].disturbed ) =>
            gen[h].out = gen[g].out

\* C8: the generator is lazy.  The call does nothing; every next() yields exactly
\* one item (the last one, which ends the generator, none); after j items of
\* phase 2 exactly j items have left the working copies and no draw has been made
\* ahead of the item last yielded.
C8_Lazy ==
    \A g \in Gens :
        LET st == gen[g]
            j  == Phase2Count(st)
        IN  /\ st.pc \in {"none", "created"} =>
                   /\ st.out = <<>> /\ st.joined = <<>> /\ st.pulls = 0
                   /\ st.draws = 0 /\ st.removed = 0 /\ ~st.copied
            /\ ~Ended(st) => Len(st.out) = st.pulls
            /\ Ended(st) => Len(st.out) = st.pulls - 1
            /\ st.removed = j
            /\ st.copied =>
                   SumSeq([i \in DOMAIN st.local |-> Len(lists[st.local[i]])])
                       = Len(SampItems) - j
            /\ st.pc = "phase2" => st.draws = 2 * j
            /\ st.draws <= 2 * j + 1
            /\ (\A h \in Gens : ~gen[h].copied) =>
                   Len(lists) = Len(before.non) + Len(before.samp)

C8_Witness ==
    /\ gen[1].pc = "phase2"
    /\ NumNon >= 1
    /\ Phase2Count(gen[1]) >= 1
    /\ \E i \in DOMAIN gen[1].local : Len(lists[gen[1].local[i]]) > 0

HasNonPositive(w) == \E i \in DOMAIN w : w[i] <= 0
OnlyPositiveChosen(st) ==
    \A n \in DOMAIN st.src : st.src[n] # 0 => st.weights[st.src[n]] > 0

\* C9 as stated: whatever the weight list, zero and negative weights cause no
\* error and their datasets are never chosen.
C9_AnyNonPositiveWeightTolerated ==
    \A g \in Gens :
        LET st == gen[g]
        IN  ( /\ st.pc # "none"
              /\ Len(st.weights) = Len(sampling_datasets)
              /\ HasNonPositive(st.weights) ) =>
                st.pc # "raised" /\ OnlyPositiveChosen(st)

\* C9 amended: when the weights, one per sampling dataset, sum to a positive
\* number, zero and negative weights cause no error and their datasets are never
\* chosen.
C9_NonPositiveWeightNeverChosen ==
    \A g \in Gens :
        LET st == gen[g]
        IN  ( /\ st.pc # "none"
              /\ Len(st.weights) = Len(sampling_datasets)
              /\ SumSeq(st.weights) > 0 ) =>
                st.pc # "raised" /\ OnlyPositiveChosen(st)

C9_Witness ==
    /\ \E i \in DOMAIN sampling_probabilities :
           sampling_probabilities[i] < 0 /\ Len(before.samp[i]) > 0
    /\ Len(sampling_probabilities) = Len(sampling_datasets)
    /\ SumSeq(sampling_probabilities) > 0
    /\ gen[1].pc = "done"
    /\ Phase2Count(gen[1]) >= 2

\* C10 as stated: whenever the numbers of weights and of sampling datasets differ,
\* the generator does not end normally.
C10_MismatchAlwaysFails ==
    \A g \in Gens :
        (gen[g].pc # "none" /\ Len(gen[g].weights) # Len(sampling_datasets)) =>
            gen[g].pc # "done"

\* C10 amended: when the numbers differ and there is at least one sampling dataset,
\* the generator does not end normally: the first turn of the loop raises, before
\* any draw or removal.
C10_MismatchFailsWhenSampling ==
    \A g \in Gens :
        LET st == gen[g]
        IN  ( /\ st.pc # "none"
              /\ Len(st.weights) # Len(sampling_datasets)
              /\ Len(sampling_datasets) > 0 ) =>
                /\ st.pc # "done" /\ st.pc # "phase2"
                /\ st.copied => st.pc = "raised"
                /\ st.draws = 0 /\ st.removed = 0
                /\ Len(st.out) <= NumNon

C10_Witness ==
    /\ Len(sampling_probabilities) # Len(sampling_datasets)
    /\ Len(sampling_datasets) > 0
    /\ NumNon >= 2
    /\ gen[1].pc = "raised"
    /\ Len(gen[1].out) = NumNon

\* the size of the smallest sampling dataset before the call (0 when there is none)
MinSampLen ==
    IF before.samp = <<>> THEN 0
    ELSE CHOOSE m \in {Len(before.samp[i]) : i \in DOMAIN before.samp} :
             \A i \in DOMAIN before.samp : m <= Len(before.samp[i])
AllSamplingUsable(st) ==
    /\ Len(sampling_datasets) >= 1
    /\ Len(st.weights) = Len(sampling_datasets)
    /\ \A i \in DOMAIN st.weights : st.weights[i] > 0
    /\ \A i \in DOMAIN before.samp : Len(before.samp[i]) >= 1

\* C11: when every sampling dataset is non-empty and has a positive weight, the
\* generator never raises, phase 2 never yields more items than the sampling
\* datasets hold together, and a generator that has ended has yielded in phase 2
\* at least as many items as the smallest sampling dataset holds, hence at least
\* that many plus the number of non-sampling items in all.
C11_Phase2Bounds ==
    \A g \in Gens :
        LET st == gen[g]
        IN  (st.pc # "none" /\ AllSamplingUsable(st)) =>
                /\ st.pc # "raised"
                /\ Phase2Count(st) <= Len(SampItems)
                /\ st.pc = "done" =>
                       /\ Phase2Count(st) >= MinSampLen
                       /\ Len(st.out) >= NumNon + MinSampLen

\* the lower bound is met exactly: two sampling datasets of different sizes, and
\* the generator ends after as many phase 2 items as the smaller one holds
C11_Witness ==
    /\ AllSamplingUsable(gen[1])
    /\ Len(before.samp) = 2
    /\ Len(before.samp[1]) # Len(before.samp[2])
    /\ NumNon >= 1
    /\ gen[1].pc = "done"
    /\ Phase2Count(gen[1]) = MinSampLen

\* C22: in phase 2 the generator ends at the first draw that picks a sampling
\* dataset with nothing left: a step of a generator suspended in the loop whose
\* weighted choice falls on an empty dataset ends the generator, yields nothing,
\* takes nothing from any dataset and makes no second choice, whatever the other
\* datasets still hold; a choice that falls on a dataset with items yields one of
\* them and leaves the generator in the loop.
C22_EndsAtFirstEmptyDraw ==
    [][\A g \in Gens :
          (gen[g].pc = "phase2" /\ gen'[g].pulls # gen[g].pulls) =>
              LET st == gen[g]
                  c  == Choices(Len(st.local), st.weights, rng)
                  a  == st.local[c.idx + 1]
              IN  c.ok =>
                      IF lists[a] = <<>>
                      THEN /\ gen'[g].pc = "done"
                           /\ gen'[g].empty = c.idx + 1
                           /\ gen'[g].out = st.out
                           /\ lists' = lists
                           /\ rng' = c.rng
                      ELSE /\ gen'[g].pc = "phase2"
                           /\ gen'[g].empty = 0
                           /\ Len(gen'[g].out) = Len(st.out) + 1
                           /\ gen'[g].src = Append(st.src, c.idx + 1)
                           /\ Len(lists'[a]) = Len(lists[a]) - 1
                           /\ \A x \in DOMAIN lists : x # a => lists'[x] = lists[x]
      ]_vars

\* the generator has ended on an empty dataset while another still holds items
C22_Witness ==
    /\ gen[1].pc = "done"
    /\ gen[1].empty # 0
    /\ Phase2Count(gen[1]) >= 1
    /\ \E i \in DOMAIN gen[1].local : Len(lists[gen[1].local[i]]) > 0

\* C28: consumption ends: a generator is never resumed more often than there are
\* input items plus once, the loop of phase 2 never makes more turns than there
\* are sampling items plus one, and a generator resumed that often has ended.
C28_BoundedDraws ==
    \A g \in Gens :
        LET st == gen[g]
            turns == st.removed + (IF st.empty # 0 THEN 1 ELSE 0)
        IN  /\ st.pulls <= NumNon + Len(SampItems) + 1
            /\ turns <= Len(SampItems) + 1
            /\ st.draws <= 2 * Len(SampItems) + 1
            /\ st.pulls = NumNon + Len(SampItems) + 1 => Ended(st)

\* every sampling item was yielded and one more turn ended the loop
C28_Witness ==
    /\ Len(SampItems) >= 3
    /\ NumNon >= 1
    /\ gen[1].pc = "done"
    /\ gen[1].removed = Len(SampItems)
    /\ gen[1].pulls = NumNon + Len(SampItems) + 1

-----------------------------------------------------------------------------
(* Part 2: the build script, main of src/scripts/build_tts_dataset.py.       *)
(* main calls every builder of the registry with the keyword cfg, checks     *)
(* the configuration against the names built, hands the lists to             *)
(* interleave_datasets and writes what the generator yields to dataset.txt.  *)
(* The list built for the k-th name is the object at address k of `lists`.   *)
(* The registry as shipped begins with a builder that takes output_dir and   *)
(* no cfg, so the shipped main stops at its first call; the steps after the  *)
(* loop are reached with a registry of builders that accept cfg.             *)

\* ALL_DATASET_BUILDERS, in the order of the dict
ALL_DATASET_BUILDERS ==
    <<"bus_stops_and_stations", "dates", "times", "lex", "reddit",
      "phoneme_covering", "sundhed_dk", "borger_dk">>
\* the builders whose only parameter is cfg
AcceptsCfg == {"dates", "times", "sundhed_dk", "borger_dk"}
\* the builders that fetch pages (get_soup)
Scrapers == {"sundhed_dk", "borger_dk"}
\* the registry restricted to the builders that accept cfg
CfgBuilders == SelectSeq(ALL_DATASET_BUILDERS, LAMBDA n : n \in AcceptsCfg)
Registries == {ALL_DATASET_BUILDERS, CfgBuilders}

Range(s) == {s[i] : i \in DOMAIN s}
\* the names in which the configurations tried differ; the others are keys of
\* sampling_probabilities in each of them
VariedNames == {"dates", "times", "lex"}
Configs ==
    {[sampling_probabilities |-> [n \in (AcceptsCfg \ VariedNames) \cup k |-> 2],
      include_entire_dataset |-> inc] :
        k \in SUBSET VariedNames, inc \in SeqsOf(VariedNames, 0..2)}
\* the list a builder returns
BuilderLines(name) == IF name = "dates" THEN <<"dates 1", "dates 2">> ELSE <<name>>
OldFile == [exists |-> TRUE, lines |-> <<"old">>, touched |-> FALSE]

\* set(cfg.sampling_probabilities.keys()).union(cfg.include_entire_dataset)
DatasetsInConfig(c) ==
    DOMAIN c.sampling_probabilities \cup Range(c.include_entire_dataset)

\* mutant: names of the configuration only have to be among the names built
ConfigIsSubset(c, ds) == DatasetsInConfig(c) \subseteq Range(ds)

\* the negation of the test `datasets_in_config != set(datasets.keys())`
ConfigMatches(c, ds) == DatasetsInConfig(c) = Range(ds)

\* the keys of a dict filled from the names in s: each name once, in the order of
\* its first occurrence
DictKeys(s) == SelectSeq([i \in DOMAIN s |-> IF \E j \in 1..(i - 1) : s[j] = s[i]
                                            THEN "" ELSE s[i]],
                         LAMBDA n : n # "")
\* the position of name in datasets, which is the address of its list
AddressOf(name) == CHOOSE i \in DOMAIN datasets : datasets[i] = name

Raised(e) == [main EXCEPT !.pc = "raised", !.error = e]

InitBuild ==
    /\ builders \in Registries
    /\ cfg \in Configs
    /\ datasets = <<>>
    /\ main = [NoMain EXCEPT !.pc = "build"]
    /\ dataset_path \in {NoFile, OldFile}
    /\ lists = <<>>
    /\ non_sampling_datasets = <<>>
    /\ sampling_datasets = <<>>
    /\ sampling_probabilities = <<>>
    /\ before = [non |-> <<>>, samp |-> <<>>]
    /\ random_seed \in {0, MaxSeed}
    /\ rng \in EntropyStates
    /\ gen = [g \in Gens |-> NoGen]
    /\ timesFile \in BOOLEAN
    /\ CoverIdle
    /\ SentIdle
    /\ LaterIdle

\* one turn of the loop over ALL_DATASET_BUILDERS: builder(cfg=cfg).  A builder
\* without a parameter cfg raises TypeError; a scraper may raise URLError, which is
\* raised again; build_time_dataset leaves the random generator as BuildTime does.
\* (The draws of build_date_dataset are not represented: interleave_datasets
\* seeds the generator again before its first draw.)
BuildDataset ==
    /\ main.pc = "build"
    /\ Len(datasets) < Len(builders)
    /\ LET name == builders[Len(datasets) + 1]
       IN  IF name \notin AcceptsCfg
           THEN /\ main' = Raised("TypeError")
                /\ UNCHANGED <<datasets, lists, rng, timesFile>>
           ELSE \/ /\ name \in Scrapers
                   /\ main' = Raised("URLError")
                   /\ UNCHANGED <<datasets, lists, rng, timesFile>>
                \/ /\ datasets' = Append(datasets, name)
                   /\ lists' = Append(lists, BuilderLines(name))
                   /\ main' = [main EXCEPT !.pc = IF Len(datasets') = Len(builders)
                                                  THEN "check" ELSE "build"]
                   /\ IF name = "times" /\ ~timesFile
                      THEN /\ \E c \in 0..MaxOverlap :
                                LET n == NumHours + NumMinutes + NumPrefixes - c
                                IN  rng' = Advance(SeedRng(rng, random_seed),
                                             NumHours + NumMinutes + NumPrefixes + n - 1)
                           /\ timesFile' = TRUE
                      ELSE UNCHANGED <<rng, timesFile>>
    /\ UNCHANGED <<builders, cfg, dataset_path, non_sampling_datasets,
                   sampling_datasets, sampling_probabilities, random_seed, before, gen>>
    /\ UNCHANGED <<coverVars, sentVars, laterVars>>

\* lines 40-49: the names of the configuration against the names built
CheckConfig ==
    /\ main.pc = "check"
    /\ main' = IF ConfigMatches(cfg, datasets)
               THEN [main EXCEPT !.pc = "split"] ELSE Raised("ValueError")
    /\ UNCHANGED <<interleaveVars, builders, cfg, datasets, dataset_path>>
    /\ UNCHANGED <<coverVars, sentVars, laterVars>>

\* lines 51-68: the two dicts, then the call of interleave_datasets, which only
\* makes the generator.  A name of include_entire_dataset that was not built, or a
\* sampling name without a probability, is a failed lookup.
InterleaveCall ==
    /\ main.pc = "split"
    /\ LET non  == DictKeys(cfg.include_entire_dataset)
           samp == SelectSeq(datasets, LAMBDA n : n \notin Range(non))
       IN  IF \/ \E i \in DOMAIN non : non[i] \notin Range(datasets)
              \/ \E i \in DOMAIN samp : samp[i] \notin DOMAIN cfg.sampling_probabilities
           THEN /\ main' = Raised("KeyError")
                /\ UNCHANGED <<non_sampling_datasets, sampling_datasets,
                               sampling_probabilities, before, gen>>
           ELSE LET nrefs == [i \in DOMAIN non |-> AddressOf(non[i])]
                    srefs == [i \in DOMAIN samp |-> AddressOf(samp[i])]
                    w     == [i \in DOMAIN samp |-> cfg.sampling_probabilities[samp[i]]]
                IN  /\ non_sampling_datasets' = nrefs
                    /\ sampling_datasets' = srefs
                    /\ sampling_probabilities' = w
                    /\ before' = [non  |-> [i \in DOMAIN nrefs |-> lists[nrefs[i]]],
                                  samp |-> [i \in DOMAIN srefs |-> lists[srefs[i]]]]
                    /\ gen' = [gen EXCEPT ![1] =
                                  [NoGen EXCEPT !.pc = "created", !.seed = random_seed,
                                                !.non = nrefs, !.local = srefs,
                                                !.weights = w]]
                    /\ main' = [main EXCEPT !.pc = "unlink", !.called = TRUE]
    /\ UNCHANGED <<builders, cfg, datasets, dataset_path, lists, random_seed, rng,
                   timesFile>>
    /\ UNCHANGED <<coverVars, sentVars, laterVars>>

\* lines 71-73: the old file is removed and a new one opened for appending
Unlink ==
    /\ main.pc = "unlink"
    /\ dataset_path' = [exists |-> TRUE, lines |-> <<>>, touched |-> TRUE]
    /\ main' = [main EXCEPT !.pc = "write"]
    /\ UNCHANGED <<interleaveVars, builders, cfg, datasets>>
    /\ UNCHANGED <<coverVars, sentVars, laterVars>>

\* lines 74-75: one turn of `for sample in dataset_itr`
WriteSample ==
    /\ main.pc = "write"
    /\ LET res == Resume([gen[1] EXCEPT !.pulls = @ + 1], rng, lists)
       IN  /\ gen' = [gen EXCEPT ![1] = res.gen]
           /\ rng' = res.rng
           /\ lists' = res.lists
           /\ IF Live(res.gen)
              THEN /\ dataset_path' = [dataset_path EXCEPT
                                          !.lines = Append(@, res.gen.out[Len(res.gen.out)])]
                   /\ UNCHANGED main
              ELSE /\ main' = IF res.gen.pc = "done" THEN [main EXCEPT !.pc = "done"]
                              ELSE Raised("ValueError")
                   /\ UNCHANGED dataset_path
    /\ UNCHANGED <<builders, cfg, datasets, non_sampling_datasets, sampling_datasets,
                   sampling_probabilities, random_seed, before, timesFile>>
    /\ UNCHANGED <<coverVars, sentVars, laterVars>>

NextBuild == BuildDataset \/ CheckConfig \/ InterleaveCall \/ Unlink \/ WriteSample

SpecBuild == InitBuild /\ [][NextBuild]_vars

\* some dataset built is named neither as a key of sampling_probabilities nor in
\* include_entire_dataset
SomeBuiltNameMissing == \E i \in DOMAIN datasets : datasets[i] \notin DatasetsInConfig(cfg)
NameInBoth ==
    DOMAIN cfg.sampling_probabilities \cap Range(cfg.include_entire_dataset) # {}

-----------------------------------------------------------------------------
(* Part 3: build_phoneme_covering_dataset (src/tts_text/phoneme_covering.py). *)
(* A document text is represented by its sequence of tokens.  The function    *)
(* loads the sentences, counts the phonemes of each, sorts them, and selects  *)
(* in one pass the documents that contain a phoneme still required.           *)

MaxDocs == 3                 \* most sentences in the Wikipedia dataset
MinDocsValues == {0, 1, 2}   \* values of min_docs_per_phoneme
SortStrategies == {"da", "en", "all", "fr"}

PhonemeP == [name |-> "p", examples |-> <<"pil", "op">>]
PhonemeQ == [name |-> "q", examples |-> <<"ko">>]
\* phoneme files: four names, and two names of which one is in both languages
PhonemeFiles ==
    {[da |-> <<PhonemeP, PhonemeQ>>,
      en |-> <<[name |-> "r", examples |-> <<"red">>],
               [name |-> "s", examples |-> <<"sky">>]>>],
     [da |-> <<PhonemeP, PhonemeQ>>,
      en |-> <<[name |-> "q", examples |-> <<"red">>]>>]}
Texts == {<<"og">>, <<"pil", "op">>, <<"pil", "ko">>, <<"ko", "red">>, <<"pil", "sky">>}

\* whether the sequence word occurs in the sequence token as a contiguous part
PartOf(word, token) ==
    \E i \in 0..(Len(token) - Len(word)) : SubSeq(token, i + 1, i + Len(word)) = word

\* mutant: a token counts for every word it contains
CountContaining(word, words) ==
    Cardinality({i \in DOMAIN words : PartOf(word, words[i])})

\* Counter(words)[word]
CountOf(word, words) == Cardinality({i \in DOMAIN words : words[i] = word})
\* the names appended to found_phonemes for one phoneme: one per example found
FoundFor(words, phoneme) ==
    LET found == SelectSeq(phoneme.examples, LAMBDA w : CountOf(w, words) > 0)
    IN  [k \in DOMAIN found |-> phoneme.name]
FoundPhonemes(words, phoneme_list) ==
    Flatten([k \in DOMAIN phoneme_list |-> FoundFor(words, phoneme_list[k])])
PhonemeCount(words, phoneme_list) ==
    SumSeq(Flatten([k \in DOMAIN phoneme_list |->
                       [e \in DOMAIN phoneme_list[k].examples |->
                           CountOf(phoneme_list[k].examples[e], words)]]))

\* count_phoneme_occurences(document, phonemes, cfg): the fields added
count_phoneme_occurences(text, ph) ==
    LET da == FoundPhonemes(text, ph.da)
        en == FoundPhonemes(text, ph.en)
    IN  [text |-> text,
         da_phoneme_count |-> PhonemeCount(text, ph.da),
         en_phoneme_count |-> PhonemeCount(text, ph.en),
         all_phoneme_count |-> PhonemeCount(text, ph.da) + PhonemeCount(text, ph.en),
         da_phonemes |-> da,
         en_phonemes |-> en,
         all_phonemes |-> da \o en,
         da_unique_phonemes_count |-> Cardinality(Range(da)),
         en_unique_phonemes_count |-> Cardinality(Range(en)),
         all_unique_phonemes_count |-> Cardinality(Range(da) \cup Range(en))]

SortKey(document, sort_by) ==
    CASE sort_by = "da" -> document.da_unique_phonemes_count
      [] sort_by = "en" -> document.en_unique_phonemes_count
      [] sort_by = "all" -> document.all_unique_phonemes_count
\* dataset.sort(key, reverse=True): the orders with no key below a later one
SortedBy(docs, sort_by) ==
    {s \in {[i \in DOMAIN docs |-> docs[p[i]]] : p \in Permutations(DOMAIN docs)} :
        \A i, j \in DOMAIN s : i < j => SortKey(s[i], sort_by) >= SortKey(s[j], sort_by)}

\* all_phone_names
AllPhoneNames(ph) ==
    {ph.da[k].name : k \in DOMAIN ph.da} \cup {ph.en[k].name : k \in DOMAIN ph.en}

\* mutant: every phoneme of the document counts as new
NewPhonemesAny(all_phonemes, document_phonemes) == Range(document_phonemes)

\* set(all_phonemes.keys()).intersection(document_phonemes)
NewPhonemes(all_phonemes, document_phonemes) ==
    DOMAIN all_phonemes \cap Range(document_phonemes)

\* mutant: a credited phoneme is removed whatever its count
CreditAndRemove(all_phonemes, new_phonemes) ==
    [n \in DOMAIN all_phonemes \ new_phonemes |-> all_phonemes[n]]

\* mutant: a count that reaches zero stays in the target
CreditAndKeep(all_phonemes, new_phonemes) ==
    [n \in DOMAIN all_phonemes |->
        IF n \in new_phonemes THEN all_phonemes[n] - 1 ELSE all_phonemes[n]]

\* lines 188-191: decrement every new phoneme, pop those that reach zero
Credit(all_phonemes, new_phonemes) ==
    [n \in {m \in DOMAIN all_phonemes :
               ~(m \in new_phonemes /\ all_phonemes[m] - 1 = 0)} |->
        IF n \in new_phonemes THEN all_phonemes[n] - 1 ELSE all_phonemes[n]]

\* mutant: the document is included whether or not it brought a new phoneme
IncludeAlways(dataset, new_phonemes, text) == Append(dataset, text)

\* lines 194-195
Include(dataset, new_phonemes, text) ==
    IF new_phonemes # {} THEN Append(dataset, text) ELSE dataset

\* mutant: the loop never stops on an empty target
ExhaustedNever(all_phonemes) == FALSE

\* line 178: not all_phonemes
Exhausted(all_phonemes) == DOMAIN all_phonemes = {}

InterleaveIdle ==
    /\ lists = <<>>
    /\ non_sampling_datasets = <<>>
    /\ sampling_datasets = <<>>
    /\ sampling_probabilities = <<>>
    /\ random_seed = 0
    /\ before = [non |-> <<>>, samp |-> <<>>]
    /\ rng = 0
    /\ gen = [g \in Gens |-> NoGen]
    /\ timesFile = FALSE

InitCover ==
    /\ phonemes \in PhonemeFiles
    /\ wiki \in SeqsOf(Texts, 0..MaxDocs)
    /\ phoneme_covering \in [min_docs_per_phoneme : MinDocsValues,
                             phoneme_sort_strategy : SortStrategies]
    /\ sorted_dataset = <<>>
    /\ cover = [NoCover EXCEPT !.pc = "start"]
    /\ InterleaveIdle
    /\ BuildIdle
    /\ SentIdle
    /\ LaterIdle

\* lines 161-172: load_and_sort_wikipedia_dataset, then the coverage target
LoadAndSort ==
    /\ cover.pc = "start"
    /\ LET sort_by == phoneme_covering.phoneme_sort_strategy
           counted == [i \in DOMAIN wiki |-> count_phoneme_occurences(wiki[i], phonemes)]
       IN  IF sort_by \notin {"da", "en", "all"}
           THEN /\ cover' = [cover EXCEPT !.pc = "raised"]
                /\ UNCHANGED sorted_dataset
           ELSE /\ sorted_dataset' \in SortedBy(counted, sort_by)
                /\ cover' = [cover EXCEPT
                      !.pc = "loop",
                      !.all_phonemes = [n \in AllPhoneNames(phonemes) |->
                                           phoneme_covering.min_docs_per_phoneme]]
    /\ UNCHANGED <<phonemes, wiki, phoneme_covering>>
    /\ UNCHANGED <<interleaveVars, buildVars, sentVars, laterVars>>

\* lines 176-195: one turn of the loop.  i counts the documents taken from the
\* stream; log keeps, for each document inspected, the target before and the new
\* phonemes.
NextDocument ==
    /\ cover.pc = "loop"
    /\ cover.i < Len(sorted_dataset)
    /\ LET document == sorted_dataset[cover.i + 1]
           new_phonemes == NewPhonemes(cover.all_phonemes, document.all_phonemes)
       IN  IF Exhausted(cover.all_phonemes)
           THEN cover' = [cover EXCEPT !.pc = "save", !.i = @ + 1]
           ELSE cover' = [cover EXCEPT
                    !.i = @ + 1,
                    !.all_phonemes = Credit(@, new_phonemes),
                    !.dataset = Include(@, new_phonemes, document.text),
                    !.log = Append(@, [before |-> cover.all_phonemes,
                                       new |-> new_phonemes])]
    /\ UNCHANGED <<phonemes, wiki, phoneme_covering, sorted_dataset>>
    /\ UNCHANGED <<interleaveVars, buildVars, sentVars, laterVars>>

\* the stream is exhausted
EndOfStream ==
    /\ cover.pc = "loop"
    /\ cover.i = Len(sorted_dataset)
    /\ cover' = [cover EXCEPT !.pc = "save"]
    /\ UNCHANGED <<phonemes, wiki, phoneme_covering, sorted_dataset>>
    /\ UNCHANGED <<interleaveVars, buildVars, sentVars, laterVars>>

\* lines 197-202: the file is written and the list returned
SaveAndReturn ==
    /\ cover.pc = "save"
    /\ cover' = [cover EXCEPT !.pc = "returned",
                              !.outcome = [returned |-> cover.dataset,
                                           written |-> cover.dataset]]
    /\ UNCHANGED <<phonemes, wiki, phoneme_covering, sorted_dataset>>
    /\ UNCHANGED <<interleaveVars, buildVars, sentVars, laterVars>>

NextCover == LoadAndSort \/ NextDocument \/ EndOfStream \/ SaveAndReturn

SpecCover == InitCover /\ [][NextCover]_vars

(* Properties of build_phoneme_covering_dataset *)

Finished == cover.pc \in {"save", "returned"}
FullCoverage == Finished /\ DOMAIN cover.all_phonemes = {}
RequiredDocs == phoneme_covering.min_docs_per_phoneme
\* the phoneme names a text contains
UnitsOf(text) == Range(count_phoneme_occurences(text, phonemes).all_phonemes)
\* how many of the texts at the positions S of the selection contain name n
DocsWith(n, S) == Cardinality({j \in S : n \in UnitsOf(cover.dataset[j])})
\* what the outcome says about phonemes still outstanding
Reported(o) == IF "unsatisfied" \in DOMAIN o THEN DOMAIN o.unsatisfied ELSE {}

\* C14 as stated: when the function returns with phonemes still in the target, what
\* it gives its caller names them.
C14_PartialCoverageReported ==
    (cover.pc = "returned" /\ DOMAIN cover.all_phonemes # {}) =>
        Reported(cover.outcome) = DOMAIN cover.all_phonemes

\* C15: when the function finishes with an empty target, every phoneme name of
\* either language is among the phonemes of at least min_docs_per_phoneme of the
\* selected documents, and some selected document holds an example word of it.
C15_FullCoverageCountsMet ==
    FullCoverage =>
        \A n \in AllPhoneNames(phonemes) :
            /\ DocsWith(n, DOMAIN cover.dataset) >= RequiredDocs
            /\ \E j \in DOMAIN cover.dataset, l \in {"da", "en"} :
                   \E k \in DOMAIN phonemes[l] :
                       /\ phonemes[l][k].name = n
                       /\ \E e \in DOMAIN phonemes[l][k].examples :
                              CountOf(phonemes[l][k].examples[e], cover.dataset[j]) > 0

C15_Witness ==
    /\ FullCoverage
    /\ cover.pc = "returned"
    /\ RequiredDocs = 2
    /\ Len(cover.dataset) = 3

\* the texts of the first n documents that had, when inspected, a phoneme still
\* in the target
WithProgress[n \in 0..MaxDocs + 1] ==
    IF n = 0 THEN <<>>
    ELSE IF Range(sorted_dataset[n].all_phonemes) \cap DOMAIN cover.log[n].before # {}
         THEN Append(WithProgress[n - 1], sorted_dataset[n].text)
         ELSE WithProgress[n - 1]

\* C16: the selection consists, in stream order, of exactly the inspected
\* documents that held a phoneme still in the target when they were inspected.
C16_IncludedIffProgress ==
    /\ Len(cover.log) <= Len(sorted_dataset)
    /\ cover.dataset = WithProgress[Len(cover.log)]

\* a document is selected, one that repeats satisfied phonemes only is passed
\* over, and so is one without any phoneme
C16_Witness ==
    /\ cover.pc = "returned"
    /\ cover.dataset # <<>>
    /\ \E k \in DOMAIN cover.log :
           /\ sorted_dataset[k].all_phonemes # <<>>
           /\ cover.log[k].new = {}
    /\ \E k \in DOMAIN cover.log : sorted_dataset[k].all_phonemes = <<>>

\* the selected documents at the positions S hold every phoneme the required
\* number of times
Covers(S) == \A n \in AllPhoneNames(phonemes) : DocsWith(n, S) >= RequiredDocs

\* C17 as stated: on full coverage no proper subset of the selection covers.
C17_NoProperSubsetCovers ==
    FullCoverage =>
        \A S \in SUBSET DOMAIN cover.dataset : S # DOMAIN cover.dataset => ~Covers(S)

\* C17 amended: on full coverage every selected document holds a phoneme that the
\* documents selected before it hold fewer than the required number of times;
\* hence no proper prefix of the selection covers.
C17_NoProperPrefixCovers ==
    FullCoverage =>
        /\ \A j \in DOMAIN cover.dataset :
               \E n \in UnitsOf(cover.dataset[j]) : DocsWith(n, 1..(j - 1)) < RequiredDocs
        /\ \A j \in DOMAIN cover.dataset : ~Covers(1..(j - 1))

\* full coverage by three documents of which the first can be left out
C17_Witness ==
    /\ FullCoverage
    /\ Len(cover.dataset) = 3
    /\ Covers({2, 3})

\* the target after the k-th inspected document
TargetAfter(k) == IF k = Len(cover.log) THEN cover.all_phonemes ELSE cover.log[k + 1].before
\* the inspected documents that contain name n, and those credited to it
Containing(n) == {k \in DOMAIN cover.log : n \in Range(sorted_dataset[k].all_phonemes)}
Credited(n) == {k \in DOMAIN cover.log : n \in cover.log[k].new}

\* nothing is left to cover in the target t
TargetEmpty(t) == DOMAIN t = {}

\* C23: no document is inspected with an empty target: every document inspected
\* met a target that still held a phoneme, once the target is empty the document
\* that emptied it is the last one inspected and the last one selected, and the
\* loop is left only with an empty target or with every document of the stream
\* inspected.
C23_StopsOnEmptyTarget ==
    /\ \A k \in DOMAIN cover.log : ~TargetEmpty(cover.log[k].before)
    /\ (TargetEmpty(cover.all_phonemes) /\ cover.log # <<>>) =>
           /\ cover.log[Len(cover.log)].new # {}
           /\ cover.dataset # <<>>
           /\ cover.dataset[Len(cover.dataset)] = sorted_dataset[Len(cover.log)].text
    /\ Finished =>
           \/ TargetEmpty(cover.all_phonemes)
           \/ Len(cover.log) = Len(sorted_dataset)

\* the target was emptied before the end of the stream and the function returned
\* without inspecting the documents that follow
C23_Witness ==
    /\ cover.pc = "returned"
    /\ TargetEmpty(cover.all_phonemes)
    /\ cover.log # <<>>
    /\ Len(cover.log) + 2 <= Len(sorted_dataset)
    /\ sorted_dataset[Len(sorted_dataset)].all_phonemes # <<>>

C25_CountsStayPositive ==
    RequiredDocs >= 1 =>
        /\ \A n \in DOMAIN cover.all_phonemes :
               cover.all_phonemes[n] \in 1..RequiredDocs
        /\ \A k \in DOMAIN cover.log :
               LET b == cover.log[k].before
                   a == TargetAfter(k)
                   new == cover.log[k].new
               IN  /\ \A n \in DOMAIN b : b[n] \in 1..RequiredDocs
                   /\ DOMAIN a = {n \in DOMAIN b : ~(n \in new /\ b[n] = 1)}
                   /\ \A n \in DOMAIN a :
                          a[n] = IF n \in new THEN b[n] - 1 ELSE b[n]

\* a count has been lowered from two to one, and another name has left the
\* target
C25_Witness ==
    /\ RequiredDocs = 2
    /\ cover.log # <<>>
    /\ \E n \in DOMAIN cover.all_phonemes : cover.all_phonemes[n] = 1
    /\ DOMAIN cover.all_phonemes # AllPhoneNames(phonemes)

-----------------------------------------------------------------------------
(* Part 4: extract_sentences (src/tts_text/utils.py).  A string is a sequence  *)
(* of characters.  sent_tokenize is the Punkt splitter of nltk: it cuts a line *)
(* after sentence-ending punctuation that is followed by whitespace and a next *)
(* token, starts the next sentence at that token, and trims whitespace from    *)
(* the end of the last sentence only.  Which of the possible places it takes   *)
(* for sentence ends depends on its trained parameters; every choice is tried. *)

SP == " "
TAB == "\t"
NL == "\n"
DOT == "."
Letters == {"a"}                  \* members of the class [A-ZÆØÅa-zæøå]
Whitespace == {SP, TAB, NL}

\* the lines the blocks of the corpus are made of
Lines ==
    {<<"a", DOT, SP, "a", DOT>>,            \* two sentences, or one
     <<SP, DOT, DOT, DOT, "a">>,            \* an ellipsis after a leading space
     <<DOT, DOT, DOT, "a">>,
     <<"a", DOT, DOT, DOT>>,
     <<"a", SP, DOT, "a", DOT>>,            \* ends in an abbreviation
     <<TAB, "a", SP, SP, "a", SP>>,         \* whitespace to be cleaned
     <<>>,
     <<"a", DOT, "1", DOT>>}                \* no letter between the dots
BlockCounts == 0..2               \* blocks in the corpus
LineCounts == 1..2                \* lines in a block
MinLengths == {0, 2, 4}           \* values of min_sentence_length

\* "\n".join(lines)
JoinLines(ls) ==
    Flatten([i \in DOMAIN ls |-> IF i = 1 THEN ls[i] ELSE <<NL>> \o ls[i]])
Blocks == {JoinLines(ls) : ls \in SeqsOf(Lines, LineCounts)}

\* example.split("\n")
RECURSIVE SplitNL(_)
SplitNL(example) ==
    IF \E i \in DOMAIN example : example[i] = NL
    THEN LET i == CHOOSE k \in DOMAIN example :
                      example[k] = NL /\ \A j \in 1..(k - 1) : example[j] # NL
         IN  <<SubSeq(example, 1, i - 1)>> \o SplitNL(SubSeq(example, i + 1, Len(example)))
    ELSE <<example>>

\* len(text.rstrip())
RstripLen(text) ==
    IF \E i \in DOMAIN text : text[i] \notin Whitespace
    THEN CHOOSE i \in DOMAIN text :
             text[i] \notin Whitespace /\ \A j \in (i + 1)..Len(text) : text[j] \in Whitespace
    ELSE 0
\* the places where the splitter may end a sentence: a full stop followed by
\* whitespace and then a token
Candidates(text) ==
    {i \in DOMAIN text : /\ text[i] = DOT
                         /\ i + 1 <= Len(text) /\ text[i + 1] \in Whitespace
                         /\ i < RstripLen(text)}
\* the start of the token after the whitespace that follows position i
NextTok(text, i) ==
    CHOOSE k \in (i + 1)..Len(text) :
        text[k] \notin Whitespace /\ \A j \in (i + 1)..(k - 1) : text[j] \in Whitespace
\* the sentences when the sentence ends taken are the places in ends
RECURSIVE SlicesFrom(_, _, _)
SlicesFrom(text, start, ends) ==
    IF ends # {}
    THEN LET e == CHOOSE x \in ends : \A y \in ends : x <= y
         IN  <<SubSeq(text, start, e)>> \o SlicesFrom(text, NextTok(text, e), ends \ {e})
    ELSE IF RstripLen(text) >= start
         THEN <<SubSeq(text, start, RstripLen(text))>>
         ELSE <<>>
\* sent_tokenize(text=example, language="danish"): the lists it may return
sent_tokenize(text) == {SlicesFrom(text, 1, ends) : ends \in SUBSET Candidates(text)}

\* the ways of splitting every line of a list
RECURSIVE Tokenizations(_)
Tokenizations(ls) ==
    IF ls = <<>> THEN {<<>>}
    ELSE {<<t>> \o rest : t \in sent_tokenize(Head(ls)), rest \in Tokenizations(Tail(ls))}

\* mutant: the lists are chained from the last to the first
ChainReversed(ss) == Flatten([i \in DOMAIN ss |-> ss[Len(ss) + 1 - i]])

\* list(it.chain(*lists))
ChainLists(ss) == Flatten(ss)

\* sentence.replace("\n", " ")
ReplaceNewlines(sentence) ==
    [i \in DOMAIN sentence |-> IF sentence[i] = NL THEN SP ELSE sentence[i]]
\* sentence.startswith("..."), sentence.endswith("...")
StartsWithEllipsis(sentence) ==
    Len(sentence) >= 3 /\ SubSeq(sentence, 1, 3) = <<DOT, DOT, DOT>>
EndsWithEllipsis(sentence) ==
    Len(sentence) >= 3
        /\ SubSeq(sentence, Len(sentence) - 2, Len(sentence)) = <<DOT, DOT, DOT>>
\* re.search(r"\.[A-ZÆØÅa-zæøå]+\.$", sentence) is not None; $ matches at the end
\* and before a newline that ends the string
AbbreviationTail(sentence) ==
    \E e \in {Len(sentence)} \cup
             {k \in {Len(sentence) - 1} : k >= 1 /\ sentence[Len(sentence)] = NL} :
        /\ e >= 3
        /\ sentence[e] = DOT
        /\ \E b \in 1..(e - 2) :
               /\ sentence[b] = DOT
               /\ \A j \in (b + 1)..(e - 1) : sentence[j] \in Letters
\* re.sub(" +", " ", sentence)
CollapseSpaces(sentence) ==
    SelectSeq([i \in DOMAIN sentence |->
                  IF sentence[i] = SP /\ i > 1 /\ sentence[i - 1] = SP
                  THEN "" ELSE sentence[i]],
              LAMBDA c : c # "")
\* sentence.strip(" \t\n")
Strip(sentence) ==
    IF \A i \in DOMAIN sentence : sentence[i] \in Whitespace THEN <<>>
    ELSE LET first == CHOOSE i \in DOMAIN sentence :
                          sentence[i] \notin Whitespace
                              /\ \A j \in 1..(i - 1) : sentence[j] \in Whitespace
         IN  SubSeq(sentence, first, RstripLen(sentence))

\* mutant: a sentence as long as the minimum is kept
LongEnoughOrEqual(sentence, min_length) == Len(sentence) >= min_length

\* len(sentence) > min_sentence_length
LongEnough(sentence, min_length) == Len(sentence) > min_length

\* the two filters of lines 60-71, applied to the sentence as it is then
PassesFilters(sentence) ==
    /\ ~StartsWithEllipsis(sentence) /\ ~EndsWithEllipsis(sentence)
    /\ ~AbbreviationTail(sentence)
\* lines 74 and 77
Clean(sentence) == Strip(CollapseSpaces(sentence))

\* lines 57-82 on a list of sentences; `from` remembers the place of each
\* sentence in the list the splitter gave
FilterSentences(split, min_length) ==
    LET replaced == [i \in DOMAIN split |-> [s |-> ReplaceNewlines(split[i].s), from |-> i]]
        filtered == SelectSeq(replaced, LAMBDA r : PassesFilters(r.s))
        cleaned  == [i \in DOMAIN filtered |-> [filtered[i] EXCEPT !.s = Clean(@)]]
    IN  SelectSeq(cleaned, LAMBDA r : LongEnough(r.s, min_length))

InitSentences ==
    /\ corpus \in SeqsOf(Blocks, BlockCounts)
    /\ min_sentence_length \in MinLengths
    /\ extraction = [NoExtraction EXCEPT !.pc = "start"]
    /\ InterleaveIdle
    /\ BuildIdle
    /\ CoverIdle
    /\ LaterIdle

\* lines 42-54: the blocks are cut into lines and the lines into sentences; every
\* sentence is kept with the block, the line and the place in the line it is from
SplitSentences ==
    /\ extraction.pc = "start"
    /\ LET perBlock == [b \in DOMAIN corpus |->
                           LET ls == SplitNL(corpus[b])
                           IN  [l \in DOMAIN ls |-> [text |-> ls[l], block |-> b, line |-> l]]]
           lines == ChainLists(perBlock)
       IN  \E toks \in Tokenizations([i \in DOMAIN lines |-> lines[i].text]) :
               extraction' = [extraction EXCEPT
                   !.pc = "split",
                   !.split = ChainLists([i \in DOMAIN lines |->
                                 [k \in DOMAIN toks[i] |->
                                     [s |-> toks[i][k], block |-> lines[i].block,
                                      line |-> lines[i].line, k |-> k]]])]
    /\ UNCHANGED <<corpus, min_sentence_length>>
    /\ UNCHANGED <<interleaveVars, buildVars, coverVars, laterVars>>

\* lines 56-84: newlines replaced, the two filters, the cleaning, the length
\* filter, and the return
FilterAndReturn ==
    /\ extraction.pc = "split"
    /\ extraction' = [extraction EXCEPT
           !.pc = "returned",
           !.sentences = FilterSentences(extraction.split, min_sentence_length)]
    /\ UNCHANGED <<corpus, min_sentence_length>>
    /\ UNCHANGED <<interleaveVars, buildVars, coverVars, laterVars>>

NextSentences == SplitSentences \/ FilterAndReturn

SpecSentences == InitSentences /\ [][NextSentences]_vars

(* Properties of extract_sentences *)

Returned == extraction.pc = "returned"
Result == [i \in DOMAIN extraction.sentences |-> extraction.sentences[i].s]

\* C18: every sentence returned is longer than min_sentence_length.
C18_LongerThanMinimum ==
    Returned => \A i \in DOMAIN Result : Len(Result[i]) > min_sentence_length

\* a sentence is returned and another, which passed the other filters, is left out
\* for its length
C18_Witness ==
    /\ Returned
    /\ min_sentence_length > 0
    /\ Result # <<>>
    /\ \E j \in DOMAIN extraction.split :
           /\ PassesFilters(extraction.split[j].s)
           /\ Len(Clean(extraction.split[j].s)) = min_sentence_length

\* C19 as stated: no sentence returned starts or ends with "..." or matches the
\* abbreviation pattern, whatever the splitter returned.
C19_NoEllipsisNoAbbreviation ==
    Returned => \A i \in DOMAIN Result :
                    /\ ~StartsWithEllipsis(Result[i])
                    /\ ~EndsWithEllipsis(Result[i])
                    /\ ~AbbreviationTail(Result[i])

\* (block, line, place in the line) of x comes before that of y
Before(x, y) ==
    \/ x.block < y.block
    \/ x.block = y.block /\ x.line < y.line
    \/ x.block = y.block /\ x.line = y.line /\ x.k < y.k

\* C20: the sentences the splitter gave are in the order of blocks, of lines in a
\* block and of sentences in a line; the list returned holds cleaned sentences of
\* that list, each at most once and in the same order.
C20_OrderPreserved ==
    /\ \A i, j \in DOMAIN extraction.split :
           i < j => Before(extraction.split[i], extraction.split[j])
    /\ Returned =>
           /\ \A i \in DOMAIN extraction.sentences :
                  LET r == extraction.sentences[i]
                  IN  /\ r.from \in DOMAIN extraction.split
                      /\ r.s = Clean(ReplaceNewlines(extraction.split[r.from].s))
           /\ \A i, j \in DOMAIN extraction.sentences :
                  i < j => extraction.sentences[i].from < extraction.sentences[j].from

\* sentences of two blocks and of two lines of a block are returned, two of them
\* from one line, and a sentence between returned ones was filtered out
C20_Witness ==
    /\ Returned
    /\ \E i, j \in DOMAIN extraction.sentences :
           LET x == extraction.split[extraction.sentences[i].from]
               y == extraction.split[extraction.sentences[j].from]
           IN  x.block = y.block /\ x.line = y.line /\ x.k < y.k
    /\ \E i, j \in DOMAIN extraction.sentences :
           extraction.split[extraction.sentences[i].from].block
               < extraction.split[extraction.sentences[j].from].block
    /\ \E i \in DOMAIN extraction.sentences :
           /\ i < Len(extraction.sentences)
           /\ extraction.sentences[i + 1].from > extraction.sentences[i].from + 1

-----------------------------------------------------------------------------
(* Part 5: get_soup (src/tts_text/utils.py).  The argument retries is None,    *)
(* the empty set here, or an integer, a one-element set.  The server and the   *)
(* browser are the environment: every request gets any status and any text,    *)
(* every page load succeeds with any page source or raises.  A text is "",     *)
(* "page", which the parser turns into a soup with contents, or "garbage",     *)
(* which it turns into a soup without.                                         *)

MaxRetries == 2              \* largest value of the argument retries
TimeoutRetries == 5          \* retries_left of the requests path
DriverRetries == 5           \* retries_left of the browser path
Statuses == {200, 404, 408}
Pages == {"", "page", "garbage"}
RetriesValues == {{}} \cup {{k} : k \in -1..MaxRetries}

IsNone(x) == x = {}
ValueOf(x) == CHOOSE k \in x : TRUE
\* str(response.status_code).startswith("2"), for the three-digit statuses
StartsWith2(status) == status \div 100 = 2
\* BeautifulSoup(html, "html.parser").contents is not empty
HasContents(html) == html = "page"

NewSoup == [pc |-> "start", retries_left |-> 0, status |-> 0, text |-> "", html |-> "",
            contents |-> FALSE, requests |-> <<>>, loads |-> 0, parses |-> 0,
            error |-> "none"]
\* pc: start, static (the requests path), driver (the browser path), parse,
\* returned, raised, spinning (the loop `while not soup.contents` that cannot end).
\* History: requests (the status of every response), loads, parses.

InitSoup ==
    /\ soup_args \in [dynamic : BOOLEAN, retries : RetriesValues,
                      xpath_to_be_present : BOOLEAN]
    /\ soup = NewSoup
    /\ reddit = NoReddit /\ web = NoWeb /\ crawl = NoCrawl /\ counting = NoCounting
    /\ InterleaveIdle
    /\ BuildIdle
    /\ CoverIdle
    /\ SentIdle

SoupRaised(e) == [soup EXCEPT !.pc = "raised", !.error = e]

\* lines 166-174 and 196-199: the check of retries, then the browser is made or
\* the first request sent
EnterGetSoup ==
    /\ soup.pc = "start"
    /\ IF ~IsNone(soup_args.retries) /\ ValueOf(soup_args.retries) < 0
       THEN soup' = SoupRaised("ValueError")
       ELSE IF soup_args.dynamic
            THEN soup' = [soup EXCEPT !.pc = "driver", !.retries_left = DriverRetries]
            ELSE \E st \in Statuses, tx \in Pages :
                     soup' = [soup EXCEPT !.pc = "static", !.status = st, !.text = tx,
                                          !.requests = <<st>>,
                                          !.retries_left = TimeoutRetries]
    /\ UNCHANGED <<soup_args, reddit, web, crawl, counting>>
    /\ UNCHANGED <<interleaveVars, buildVars, coverVars, sentVars>>

\* lines 175-194: one turn of the loop of the browser path, or its end
DriverGet ==
    /\ soup.pc = "driver"
    /\ IF soup.retries_left > 0 /\ soup.html = ""
       THEN \E raised \in {"none", "TimeoutException", "WebDriverException"},
               page_source \in Pages :
                soup' = [soup EXCEPT !.html = IF raised = "none" THEN page_source ELSE "",
                                     !.retries_left = @ - 1,
                                     !.loads = @ + 1]
       ELSE soup' = [soup EXCEPT !.pc = "parse"]
    /\ UNCHANGED <<soup_args, reddit, web, crawl, counting>>
    /\ UNCHANGED <<interleaveVars, buildVars, coverVars, sentVars>>

\* lines 200-205: one turn of `while response.status_code == 408`
RetryRequest ==
    /\ soup.pc = "static"
    /\ soup.status = 408
    /\ \E st \in Statuses, tx \in Pages :
           LET next == [soup EXCEPT !.status = st, !.text = tx,
                                    !.requests = Append(@, st),
                                    !.retries_left = @ - 1]
           IN  soup' = IF next.retries_left = 0
                       THEN [next EXCEPT !.pc = "raised", !.error = "TimeoutError"]
                       ELSE next
    /\ UNCHANGED <<soup_args, reddit, web, crawl, counting>>
    /\ UNCHANGED <<interleaveVars, buildVars, coverVars, sentVars>>

\* lines 207-213: the loop is left with a status other than 408
CheckStatus ==
    /\ soup.pc = "static"
    /\ soup.status # 408
    /\ soup' = IF ~StartsWith2(soup.status)
               THEN SoupRaised("ConnectionError")
               ELSE [soup EXCEPT !.pc = "parse", !.html = soup.text]
    /\ UNCHANGED <<soup_args, reddit, web, crawl, counting>>
    /\ UNCHANGED <<interleaveVars, buildVars, coverVars, sentVars>>

\* lines 215-232: the parsing.  The parser gives the same soup every time, so the
\* loop for retries=None ends after one attempt or never, and the loop for
\* retries=k after one attempt or after k.
ParseHtml ==
    /\ soup.pc = "parse"
    /\ LET r == soup_args.retries
           ok == HasContents(soup.html)
       IN  soup' =
             IF soup.html = "" THEN [soup EXCEPT !.pc = "returned"]
             ELSE IF IsNone(r)
                  THEN IF ok THEN [soup EXCEPT !.pc = "returned", !.contents = TRUE,
                                               !.parses = 1]
                       ELSE [soup EXCEPT !.pc = "spinning"]
             ELSE IF ValueOf(r) > 0
                  THEN IF ok THEN [soup EXCEPT !.pc = "returned", !.contents = TRUE,
                                               !.parses = 1]
                       ELSE [soup EXCEPT !.pc = "raised", !.error = "RuntimeError",
                                         !.parses = ValueOf(r)]
             ELSE [soup EXCEPT !.pc = "returned", !.contents = ok, !.parses = 1]
    /\ UNCHANGED <<soup_args, reddit, web, crawl, counting>>
    /\ UNCHANGED <<interleaveVars, buildVars, coverVars, sentVars>>

NextSoup == EnterGetSoup \/ DriverGet \/ RetryRequest \/ CheckStatus \/ ParseHtml

SpecSoup == InitSoup /\ [][NextSoup]_vars

(* Properties of get_soup *)

\* the requests sent after the first one
RetriesMade == IF soup.requests = <<>> THEN 0 ELSE Len(soup.requests) - 1

\* C21 as stated: with retries=None no call ends in TimeoutError, and with
\* retries=k at most k requests are sent again after a timeout.
C21_RetriesGovernTimeouts ==
    /\ IsNone(soup_args.retries) => soup.error # "TimeoutError"
    /\ (~IsNone(soup_args.retries) /\ ValueOf(soup_args.retries) >= 0) =>
           RetriesMade <= ValueOf(soup_args.retries)

\* C29 as stated: TimeoutError is raised only when the most recent response has
\* status 408, and at most five requests follow the first.
C29_TimeoutOnlyAfter408 ==
    ~soup_args.dynamic =>
        /\ soup.error = "TimeoutError" => soup.status = 408
        /\ RetriesMade <= TimeoutRetries

-----------------------------------------------------------------------------
(* Part 6: count_phoneme_occurences (src/tts_text/phoneme_covering.py) on a    *)
(* text given character by character.  The expression of lines 103-108, which  *)
(* splits the text at cfg.split_strings and joins the parts with spaces, is    *)
(* evaluated and its value dropped: document_text stays document["text"].      *)

MaxChars == 5                     \* most characters in a document text
Chars == {SP, TAB, "a", "b"}
WordA == <<"a">>
WordB == <<"b">>
WordAB == <<"a", "b">>
\* phoneme files whose example words are sequences of characters
CountFiles ==
    {[da |-> <<[name |-> "p", examples |-> <<WordA, WordAB>>],
               [name |-> "q", examples |-> <<WordB>>]>>,
      en |-> <<[name |-> "q", examples |-> <<WordAB>>]>>],
     [da |-> <<[name |-> "p", examples |-> <<WordB>>]>>,
      en |-> <<[name |-> "r", examples |-> <<WordA>>],
               [name |-> "p", examples |-> <<WordA>>]>>]}

\* text.split(" "): the pieces between single spaces, empty ones included
SplitSpace(text) ==
    LET F[n \in 0..Len(text)] ==
            \* the pieces of the first n characters, the last one still open
            IF n = 0 THEN <<<<>>>>
            ELSE IF text[n] = SP THEN Append(F[n - 1], <<>>)
            ELSE [F[n - 1] EXCEPT ![Len(F[n - 1])] = Append(@, text[n])]
    IN  F[Len(text)]

InitCount ==
    /\ counting \in [pc : {"start"}, text : SeqsOf(Chars, 0..MaxChars),
                     phonemes : CountFiles, document_text : {<<>>},
                     words : {<<>>}, document : {<<>>}]
    /\ soup_args = NoSoupArgs
    /\ soup = NoSoup
    /\ reddit = NoReddit
    /\ web = NoWeb
    /\ crawl = NoCrawl
    /\ InterleaveIdle
    /\ BuildIdle
    /\ CoverIdle
    /\ SentIdle

\* lines 102-109: re.sub(" +", " ", document_text).strip()
CleanText ==
    /\ counting.pc = "start"
    /\ counting' = [counting EXCEPT
           !.pc = "clean",
           !.document_text = Strip(CollapseSpaces(counting.text))]
    /\ UNCHANGED <<soup_args, soup, reddit, web, crawl>>
    /\ UNCHANGED <<interleaveVars, buildVars, coverVars, sentVars>>

\* line 110
SplitWords ==
    /\ counting.pc = "clean"
    /\ counting' = [counting EXCEPT
           !.pc = "split",
           !.words = SplitSpace(counting.document_text)]
    /\ UNCHANGED <<soup_args, soup, reddit, web, crawl>>
    /\ UNCHANGED <<interleaveVars, buildVars, coverVars, sentVars>>

\* lines 112-141: the counter, the loops over the languages, the sums
CountWords ==
    /\ counting.pc = "split"
    /\ counting' = [counting EXCEPT
           !.pc = "returned",
           !.document = [count_phoneme_occurences(counting.words, counting.phonemes)
                             EXCEPT !.text = counting.text]]
    /\ UNCHANGED <<soup_args, soup, reddit, web, crawl>>
    /\ UNCHANGED <<interleaveVars, buildVars, coverVars, sentVars>>

NextCount == CleanText \/ SplitWords \/ CountWords

SpecCount == InitCount /\ [][NextCount]_vars

(* Properties of count_phoneme_occurences *)

\* the first and the last character of the text that is not whitespace
FirstInk(text) == CHOOSE i \in DOMAIN text :
                      text[i] \notin Whitespace /\ \A j \in 1..(i - 1) : text[j] \in Whitespace
LastInk(text) == CHOOSE i \in DOMAIN text :
                     text[i] \notin Whitespace /\ \A j \in (i + 1)..Len(text) : text[j] \in Whitespace
\* the whole tokens of the text: between its first and last character that is
\* not whitespace, the longest stretches without a space
TokenSpans(text) ==
    IF \A i \in DOMAIN text : text[i] \in Whitespace THEN {}
    ELSE {sp \in (FirstInk(text)..LastInk(text)) \X (FirstInk(text)..LastInk(text)) :
             /\ sp[1] <= sp[2]
             /\ \A k \in sp[1]..sp[2] : text[k] # SP
             /\ sp[1] = FirstInk(text) \/ text[sp[1] - 1] = SP
             /\ sp[2] = LastInk(text) \/ text[sp[2] + 1] = SP}
\* how many whole tokens of the text equal word
Frequency(word, text) ==
    Cardinality({sp \in TokenSpans(text) : SubSeq(text, sp[1], sp[2]) = word})
\* the example words of the phonemes called n in the list
ExamplesOf(n, phoneme_list) ==
    UNION {Range(phoneme_list[k].examples) :
              k \in {x \in DOMAIN phoneme_list : phoneme_list[x].name = n}}
\* the sum of f over the positions of the sequence s
SumOver(s, f(_)) == SumSeq([k \in DOMAIN s |-> f(s[k])])

\* C26: in the document returned, a phoneme name is among the phonemes of a
\* language exactly when an example word of it equals a whole token of the text
\* (the stretches between single spaces after the text is stripped; a longer
\* token containing the word does not count), and the phoneme count of the
\* language is the sum, over its phonemes and their example words, of the number
\* of tokens equal to the word.
C26_ExactTokenMatch ==
    counting.pc = "returned" =>
        \A l \in {"da", "en"} :
            LET list == counting.phonemes[l]
                names == {list[k].name : k \in DOMAIN list}
                found == IF l = "da" THEN counting.document.da_phonemes
                         ELSE counting.document.en_phonemes
                count == IF l = "da" THEN counting.document.da_phoneme_count
                         ELSE counting.document.en_phoneme_count
            IN  /\ Range(found) \subseteq names
                /\ \A n \in names :
                       n \in Range(found) <=>
                           \E w \in ExamplesOf(n, list) : Frequency(w, counting.text) > 0
                /\ count = SumOver(list, LAMBDA ph :
                               SumOver(ph.examples, LAMBDA w : Frequency(w, counting.text)))

\* a text with a token that equals an example word, a token that only contains
\* one, and whitespace around: the first is counted, the second is not
C26_Witness ==
    /\ counting.pc = "returned"
    /\ counting.text = <<TAB, "a", SP, "a", "b">>
    /\ counting.words = <<WordA, WordAB>>
    /\ counting.phonemes.en[1].name = "r"
    /\ counting.document.en_phonemes = <<"r", "p">>
    /\ counting.document.en_phoneme_count = 2
    /\ counting.document.da_phonemes = <<>>

-----------------------------------------------------------------------------
(* Part 7: the manual filtering of reddit comments                             *)
(* (src/scripts/manually_filter_reddit_comments.py) and build_reddit_dataset   *)
(* (src/tts_text/reddit.py).  Each run of the script asks one annotator about  *)
(* the same sentences and merges the answers into filtered_comments.csv; the   *)
(* column keep is a string, kept here character by character.                  *)

NumSentences == 2                 \* sentences put to each annotator
MaxRuns == 3                      \* runs of the filtering script
Answers == {"y", "n"}
Usernames == {"ann", "bo"}
COMMA == ","
JoinSeparator == <<COMMA, SP>>    \* ", " of the script
SplitSeparator == <<SP, COMMA>>   \* " ," of build_reddit_dataset

\* sep.join(parts)
RECURSIVE JoinWith(_, _)
JoinWith(sep, parts) ==
    IF Len(parts) = 0 THEN <<>>
    ELSE IF Len(parts) = 1 THEN parts[1]
    ELSE parts[1] \o sep \o JoinWith(sep, Tail(parts))

\* text.split(sep): cut at the occurrences of sep from left to right
RECURSIVE SplitAt(_, _)
SplitAt(sep, text) ==
    LET hits == {i \in 1..(Len(text) - Len(sep) + 1) :
                    SubSeq(text, i, i + Len(sep) - 1) = sep}
    IN  IF hits = {} THEN <<text>>
        ELSE LET i == CHOOSE x \in hits : \A y \in hits : x <= y
             IN  <<SubSeq(text, 1, i - 1)>>
                     \o SplitAt(sep, SubSeq(text, i + Len(sep), Len(text)))

\* all(answer == "y" for answer in comment["keep"].split(" ,"))
AllYes(keep) ==
    \A k \in DOMAIN SplitAt(SplitSeparator, keep) :
        SplitAt(SplitSeparator, keep)[k] = <<"y">>

\* the records of one run: one row per sentence
Records(username, answers) ==
    [i \in 1..NumSentences |-> [sentence |-> i, index |-> i,
                                username |-> <<username>>,
                                keep |-> <<answers[i]>>,
                                given |-> <<answers[i]>>]]

\* lines 84-96: pd.concat and groupby(["sentence", "index"]) with ", ".join; the
\* field given keeps the single answers that went into keep
Merge(previous, new) ==
    [i \in 1..NumSentences |->
        [previous[i] EXCEPT
            !.username = @ \o new[i].username,
            !.keep = JoinWith(JoinSeparator, <<@, new[i].keep>>),
            !.given = @ \o new[i].given]]

\* reddit: pc, csv (the rows of filtered_comments.csv, empty when there is no
\* file), runs, token (HF_HUB_TOKEN is set), out (reddit.txt and the list
\* returned), error
InitReddit ==
    /\ reddit \in [pc : {"filtering"}, csv : {<<>>}, runs : {0}, token : BOOLEAN,
                   out : {<<>>}, error : {"none"}]
    /\ soup_args = NoSoupArgs
    /\ soup = NoSoup
    /\ web = NoWeb
    /\ crawl = NoCrawl
    /\ counting = NoCounting
    /\ InterleaveIdle
    /\ BuildIdle
    /\ CoverIdle
    /\ SentIdle

\* one run of filter_reddit_dataset by an annotator who answers every sentence
FilterRedditDataset(username, answers) ==
    /\ reddit.pc = "filtering"
    /\ reddit.runs < MaxRuns
    /\ LET filtered_answers == Records(username, answers)
           strip(rows) == [i \in DOMAIN rows |->
                              [sentence |-> rows[i].sentence, index |-> rows[i].index,
                               username |-> rows[i].username, keep |-> rows[i].keep]]
       IN  reddit' = [reddit EXCEPT
               !.runs = @ + 1,
               !.csv = IF reddit.csv = <<>> THEN filtered_answers
                       ELSE IF strip(reddit.csv) = strip(filtered_answers) THEN @
                       ELSE Merge(@, filtered_answers)]
    /\ UNCHANGED <<soup_args, soup, web, crawl, counting>>
    /\ UNCHANGED <<interleaveVars, buildVars, coverVars, sentVars>>

\* build_reddit_dataset: without the file the copy on the hub is loaded as a
\* dictionary of splits, whose keys are not comments; with it the comments are
\* filtered and written, and then pushed with the token of the environment
BuildRedditDataset ==
    /\ reddit.pc = "filtering"
    /\ IF reddit.csv = <<>>
       THEN \E e \in {"FileNotFoundError", "TypeError"} :
                reddit' = [reddit EXCEPT !.pc = "raised", !.error = e]
       ELSE LET filtered_comments_text ==
                    SelectSeq([i \in DOMAIN reddit.csv |->
                                  IF AllYes(reddit.csv[i].keep)
                                  THEN reddit.csv[i].sentence ELSE 0],
                              LAMBDA x : x # 0)
            IN  reddit' = [reddit EXCEPT
                    !.pc = IF reddit.token THEN "returned" ELSE "raised",
                    !.error = IF reddit.token THEN "none" ELSE "KeyError",
                    !.out = filtered_comments_text]
    /\ UNCHANGED <<soup_args, soup, web, crawl, counting>>
    /\ UNCHANGED <<interleaveVars, buildVars, coverVars, sentVars>>

NextReddit ==
    \/ \E username \in Usernames, answers \in [1..NumSentences -> Answers] :
           FilterRedditDataset(username, answers)
    \/ BuildRedditDataset

SpecReddit == InitReddit /\ [][NextReddit]_vars

(* Properties of build_reddit_dataset *)

\* C27 as stated: the comments returned are exactly those for which every answer
\* given by an annotator is "y", also when the answers of several annotators
\* were merged into one field.
C27_KeptIffAllAnswersYes ==
    reddit.pc = "returned" =>
        \A i \in DOMAIN reddit.csv :
            (\E k \in DOMAIN reddit.out : reddit.out[k] = reddit.csv[i].sentence)
                <=> \A a \in DOMAIN reddit.csv[i].given : reddit.csv[i].given[a] = "y"

-----------------------------------------------------------------------------
(* Part 8: the crawl of build_borger_dk_dataset (src/tts_text/borger_dk.py).   *)
(* An href is a sequence of characters and a URL is the base URL, written as   *)
(* the one character BASE, followed by an href.  The recursion of              *)
(* extract_all_articles and follow_links_and_extract_articles is kept as a     *)
(* stack of frames, one for each invocation of extract_all_articles.           *)

BASE == "B"                       \* BASE_URL
SLASH == "/"
HC == <<SLASH, "c">>              \* the page of category c
HD == <<SLASH, "d">>              \* the page of category d
HA == <<SLASH, "c", SLASH, "a">>
HCD == <<SLASH, "c", SLASH, "d">>  \* an href that names both categories
Hrefs == {HC, HD, HA, HCD}
SUBSITES_TO_IGNORE == {<<SLASH, "k", SLASH>>}
FrontPage == <<HC, HD>>           \* the hrefs of the categories on the front page

\* what a page can look like: the lists of links of its collapsed sidebar
\* divisions, and its content divisions with their paragraphs and link lists
PageKinds ==
    {[collapse |-> <<>>, content |-> <<>>],
     [collapse |-> <<<<HA, HCD>>>>, content |-> <<>>],
     [collapse |-> <<<<HA>>, <<HA, HCD>>>>, content |-> <<>>],
     [collapse |-> <<>>, content |-> <<[text |-> TRUE, links |-> <<HA, HCD>>]>>],
     [collapse |-> <<>>, content |-> <<[text |-> TRUE, links |-> <<HC>>]>>],
     [collapse |-> <<>>, content |-> <<[text |-> TRUE, links |-> <<HA>>],
                                       [text |-> FALSE, links |-> <<HCD>>]>>]}

UrlOf(href) == <<BASE>> \o href

\* category_url.split("/")[-1]
LastSegment(url) ==
    LET slashes == {i \in DOMAIN url : url[i] = SLASH}
        last == IF slashes = {} THEN 0
                ELSE CHOOSE i \in slashes : \A j \in slashes : j <= i
    IN  SubSeq(url, last + 1, Len(url))

\* the condition of get_suitable_links on one href
Suitable(href, category, url, found_urls) ==
    /\ PartOf(category, href)
    /\ ~PartOf(href, url)
    /\ \A subsite \in SUBSITES_TO_IGNORE : ~PartOf(subsite, href)
    /\ ~PartOf(<<BASE>>, href)
    /\ \A k \in DOMAIN found_urls : found_urls[k] # UrlOf(href)

\* get_suitable_links(list_link, category, url, found_urls)
get_suitable_links(list_link, category, url, found_urls) ==
    LET good == SelectSeq(list_link, LAMBDA h : Suitable(h, category, url, found_urls))
    IN  [k \in DOMAIN good |-> UrlOf(good[k])]

\* a frame of extract_all_articles: div is the content division being handled
\* (0 on the sidebar path), k the position of the loop of
\* follow_links_and_extract_articles in urls_to_search
NewFrame(url, category) ==
    [url |-> url, category |-> category, entered |-> FALSE, div |-> 0, k |-> 0,
     urls_to_search |-> <<>>, scraped |-> <<>>, accumulated |-> <<>>]

\* the return of the innermost invocation with the articles result: its caller
\* extends accumulated_articles and goes on with its loop; at the outermost
\* level main extends all_articles and turns to the next category
Deliver(c, result) ==
    LET n == Len(c.stack)
    IN  IF n > 1
        THEN [c EXCEPT !.stack = [SubSeq(c.stack, 1, n - 1) EXCEPT
                           ![n - 1].accumulated = @ \o result,
                           ![n - 1].k = @ + 1]]
        ELSE IF c.categories # <<>>
        THEN [c EXCEPT !.all_articles = @ \o result,
                       !.stack = <<NewFrame(Head(c.categories),
                                            LastSegment(Head(c.categories)))>>,
                       !.categories = Tail(@)]
        ELSE [c EXCEPT !.all_articles = @ \o result, !.stack = <<>>, !.pc = "split"]

\* the start of follow_links_and_extract_articles in the innermost frame f
\* (lines 218-219), with the list urls_to_search
StartFollowing(c, f, urls_to_search) ==
    [c EXCEPT !.parsed_urls = Append(@, f.url),
              !.found_urls = @ \o urls_to_search \o <<f.url>>,
              !.stack[Len(c.stack)] = [f EXCEPT !.urls_to_search = urls_to_search,
                                                !.k = 1]]

\* lines 143-173 for the content division d of the innermost frame f
HandleDivision(c, f, d) ==
    LET page == web[SubSeq(f.url, 2, Len(f.url))]
        content_div == page.content[d]
        scraped == IF content_div.text THEN Append(f.scraped, f.url) ELSE f.scraped
        more == get_suitable_links(content_div.links, f.category, f.url, c.found_urls)
    IN  StartFollowing(c, [f EXCEPT !.div = d, !.scraped = scraped],
                       f.urls_to_search \o more)

InitCrawl ==
    /\ web \in [Hrefs -> PageKinds]
    /\ crawl = [pc |-> "start", categories |-> <<>>, all_articles |-> <<>>,
                found_urls |-> <<>>, parsed_urls |-> <<>>, stack |-> <<>>,
                calls |-> <<>>]
    /\ soup_args = NoSoupArgs
    /\ soup = NoSoup
    /\ reddit = NoReddit
    /\ counting = NoCounting
    /\ InterleaveIdle
    /\ BuildIdle
    /\ CoverIdle
    /\ SentIdle

\* lines 32-66 up to the first call of extract_all_articles: the file exists and
\* is returned, or the front page is loaded and gives the category URLs
BuildBorgerDk ==
    /\ crawl.pc = "start"
    /\ \E exists \in BOOLEAN :
           IF exists
           THEN crawl' = [crawl EXCEPT !.pc = "returned"]
           ELSE LET category_urls == [k \in DOMAIN FrontPage |-> UrlOf(FrontPage[k])]
                IN  crawl' = [crawl EXCEPT
                        !.pc = "crawl",
                        !.categories = Tail(category_urls),
                        !.stack = <<NewFrame(Head(category_urls),
                                             LastSegment(Head(category_urls)))>>]
    /\ UNCHANGED <<soup_args, soup, reddit, web, counting>>
    /\ UNCHANGED <<interleaveVars, buildVars, coverVars, sentVars>>

\* lines 117-141 of extract_all_articles, up to its first recursive call or its
\* return: the page loads within the retries or not; the sidebar links are
\* collected; without any, the first content division is handled
EnterPage ==
    /\ crawl.pc = "crawl"
    /\ crawl.stack # <<>>
    /\ LET f == crawl.stack[Len(crawl.stack)]
           c == [crawl EXCEPT !.calls = Append(@, f.url),
                              !.stack[Len(crawl.stack)].entered = TRUE]
           g == c.stack[Len(c.stack)]
           page == web[SubSeq(f.url, 2, Len(f.url))]
           urls_to_search ==
               Flatten([d \in DOMAIN page.collapse |->
                           get_suitable_links(page.collapse[d], f.category, f.url,
                                              crawl.found_urls)])
       IN  /\ ~f.entered
           /\ \E loaded \in BOOLEAN :
                  crawl' = IF ~loaded THEN Deliver(c, <<>>)
                           ELSE IF urls_to_search # <<>>
                           THEN StartFollowing(c, g, urls_to_search)
                           ELSE IF page.content = <<>> THEN Deliver(c, <<>>)
                           ELSE HandleDivision(c, g, 1)
    /\ UNCHANGED <<soup_args, soup, reddit, web, counting>>
    /\ UNCHANGED <<interleaveVars, buildVars, coverVars, sentVars>>

\* lines 220-230: one turn of the loop over urls_to_search
FollowLink ==
    /\ crawl.pc = "crawl"
    /\ crawl.stack # <<>>
    /\ LET n == Len(crawl.stack)
           f == crawl.stack[n]
       IN  /\ f.entered
           /\ f.k <= Len(f.urls_to_search)
           /\ LET url == f.urls_to_search[f.k]
              IN  crawl' = IF \E i \in DOMAIN crawl.parsed_urls : crawl.parsed_urls[i] = url
                           THEN [crawl EXCEPT !.stack[n].k = @ + 1]
                           ELSE [crawl EXCEPT
                                    !.stack = Append(@, NewFrame(url, f.category))]
    /\ UNCHANGED <<soup_args, soup, reddit, web, counting>>
    /\ UNCHANGED <<interleaveVars, buildVars, coverVars, sentVars>>

\* the loop over urls_to_search is over: on the sidebar path the invocation
\* returns (lines 182-190); on the article path the next content division is
\* handled, or the invocation returns after the last (lines 143-179)
EndOfLinks ==
    /\ crawl.pc = "crawl"
    /\ crawl.stack # <<>>
    /\ LET f == crawl.stack[Len(crawl.stack)]
           page == web[SubSeq(f.url, 2, Len(f.url))]
       IN  /\ f.entered
           /\ f.k > Len(f.urls_to_search)
           /\ crawl' = IF f.div = 0 THEN Deliver(crawl, f.accumulated)
                       ELSE IF f.div < Len(page.content)
                       THEN HandleDivision(crawl, f, f.div + 1)
                       ELSE Deliver(crawl, f.scraped \o f.accumulated)
    /\ UNCHANGED <<soup_args, soup, reddit, web, counting>>
    /\ UNCHANGED <<interleaveVars, buildVars, coverVars, sentVars>>

\* lines 70-87: the articles are split into sentences, written and returned
SplitAndSave ==
    /\ crawl.pc = "split"
    /\ crawl' = [crawl EXCEPT !.pc = "returned"]
    /\ UNCHANGED <<soup_args, soup, reddit, web, counting>>
    /\ UNCHANGED <<interleaveVars, buildVars, coverVars, sentVars>>

NextCrawl == BuildBorgerDk \/ EnterPage \/ FollowLink \/ EndOfLinks \/ SplitAndSave

SpecCrawl == InitCrawl /\ [][NextCrawl]_vars

(* Properties of the crawl *)

\* C30 as stated: no URL is passed to extract_all_articles twice.
C30_EachUrlOnce ==
    \A i, j \in DOMAIN crawl.calls : crawl.calls[i] = crawl.calls[j] => i = j
====
